---- MODULE Spec2Model ----
(***************************************************************************)
(* A model of the serial-bus register transaction layer of iclib: the      *)
(* INA229 frames and spi_communicate, the MCP23S17 operations and operate, *)
(* the packet error code, command builders and register-group reads of the *)
(* LTC6810, the read and write of the BNO055, and the bus-configuration    *)
(* validation of the INA229, MCP23S17 and LTC6810 constructors.            *)
(*                                                                         *)
(* The bus transport (periphery.SPI) is external: what transfer returns is *)
(* an input of every call, drawn from a bounded family of responses.       *)
(* A raised Python exception is the field raised of an outcome; an outcome *)
(* with returned = FALSE carries no value.                                 *)
(***************************************************************************)
EXTENDS Integers, Sequences, FiniteSets, TLC

VARIABLES call, call_count, transfer_count, ctor, PEC, frame, events,
          Data_Return, held, tmag

vars ==
    <<call, call_count, transfer_count, ctor, PEC, frame, events, Data_Return,
      held, tmag>>

(***************************************************************************)
(* Bounds of the model.                                                    *)
(***************************************************************************)
\* the longest batch of frames or operations handed to one call
MaxFrames == 3
\* the number of calls made on one device handle
MaxCalls == 3
\* the largest data_byte_count of an MCP23S17 operation
MaxDataBytes == 2
\* the number of calls made on one LTC6810 handle
MaxLtcCalls == 2
\* the longest byte sequence drawn from PecBytes for a PEC computation
MaxPecLen == 3

\* data reads in a sequence on the BNO055 handles
MaxDataCalls == 2

\* calls of set_units in a sequence
MaxUnitCalls == 2

\* assignments in a sequence on one TMAH5273
MaxAssignments == 3

(***************************************************************************)
(* Python integer and list primitives.                                     *)
(***************************************************************************)
RECURSIVE Pow2(_)
Pow2(n) == IF n = 0 THEN 1 ELSE 2 * Pow2(n - 1)

\* a << n and a >> n on non-negative integers
Shl(a, n) == a * Pow2(n)

Shr(a, n) == a \div Pow2(n)

RECURSIVE BitOr(_, _)
BitOr(a, b) ==
    IF a = 0 THEN b
    ELSE IF b = 0 THEN a
    ELSE (IF a % 2 = 1 \/ b % 2 = 1 THEN 1 ELSE 0)
         + 2 * BitOr(a \div 2, b \div 2)

RECURSIVE BitAnd(_, _)
BitAnd(a, b) ==
    IF a = 0 \/ b = 0 THEN 0
    ELSE (IF a % 2 = 1 /\ b % 2 = 1 THEN 1 ELSE 0)
         + 2 * BitAnd(a \div 2, b \div 2)

\* s[begin:end] of a Python list, 0 <= begin, 0 <= end (indices are clamped)
Slice(s, begin, end) ==
    LET e == IF end > Len(s) THEN Len(s) ELSE end
        b == IF begin > e THEN e ELSE begin
    IN  SubSeq(s, b + 1, e)

\* s[-n:] of a Python list: the last n elements, but the whole list when
\* n = 0 (-0 is 0) or n >= len(s); for n < 0 it is s[|n|:]
LastSlice(s, n) ==
    IF n = 0 THEN s
    ELSE IF n > 0 THEN (IF n >= Len(s) THEN s
                        ELSE SubSeq(s, Len(s) - n + 1, Len(s)))
    ELSE Slice(s, 0 - n, Len(s))

\* [x] * n
Repeat(x, n) == [i \in 1..(IF n > 0 THEN n ELSE 0) |-> x]

(***************************************************************************)
(* Python integers are unbounded and a 40-bit register does not fit the    *)
(* integers of the model checker, so a parsed value is carried as two      *)
(* limbs: the integer hi * 2^24 + lo with 0 <= lo < 2^24.                  *)
(***************************************************************************)
LIMB == Pow2(24)

Big(n) == [hi |-> n \div LIMB, lo |-> n % LIMB]

\* value <<= 8
BigShl8(v) ==
    [hi |-> v.hi * 256 + (v.lo \div 65536), lo |-> (v.lo % 65536) * 256]

\* value |= byte, 0 <= byte <= 255
BigOr8(v, byte) ==
    [hi |-> v.hi, lo |-> (v.lo \div 256) * 256 + BitOr(v.lo % 256, byte)]

(***************************************************************************)
(* Outcomes of a call.                                                     *)
(***************************************************************************)
NoValue == <<>>

Return(xfers, v) ==
    [transfers |-> xfers, raised |-> "", returned |-> TRUE, value |-> v]

Raise(xfers, e) ==
    [transfers |-> xfers, raised |-> e, returned |-> FALSE, value |-> NoValue]

\* Python's None; an optional argument is the list of its value, empty for
\* None
None == <<>>

\* the transport raising IOError instead of answering: no list of bytes
IOError == <<-1>>

(***************************************************************************)
(* ina229.py                                                               *)
(***************************************************************************)
INA229_SPI_MODES == {0, 3}

INA229_MAX_SPI_MAX_SPEED == 10000000

INA229_SPI_BIT_ORDER == "msb"

INA229_SPI_WORD_BIT_COUNT == 8

Register ==
    [CONFIG           |-> [address |-> 0,  size |-> 16],
     ADC_CONFIG       |-> [address |-> 1,  size |-> 16],
     SHUNT_CAL        |-> [address |-> 2,  size |-> 16],
     SHUNT_TEMPCO     |-> [address |-> 3,  size |-> 16],
     VSHUNT           |-> [address |-> 4,  size |-> 24],
     VBUS             |-> [address |-> 5,  size |-> 24],
     DIETEMP          |-> [address |-> 6,  size |-> 16],
     CURRENT          |-> [address |-> 7,  size |-> 24],
     POWER            |-> [address |-> 8,  size |-> 24],
     ENERGY           |-> [address |-> 9,  size |-> 40],
     CHARGE           |-> [address |-> 10, size |-> 40],
     DIAG_ALRT        |-> [address |-> 11, size |-> 16],
     SOVL             |-> [address |-> 12, size |-> 16],
     SUVL             |-> [address |-> 13, size |-> 16],
     BOVL             |-> [address |-> 14, size |-> 16],
     BUVL             |-> [address |-> 15, size |-> 16],
     TEMP_LIMIT       |-> [address |-> 16, size |-> 16],
     PWR_LIMIT        |-> [address |-> 17, size |-> 16],
     MANUFACTURING_ID |-> [address |-> 62, size |-> 16],
     DEVICE_ID        |-> [address |-> 63, size |-> 16]]

Registers == DOMAIN Register

SPIReadFrame(register) ==
    [READ_OR_WRITE_TYPE |-> "R", register |-> register, data |-> 0]

SPIWriteFrame(register, data) ==
    [READ_OR_WRITE_TYPE |-> "W", register |-> register, data |-> data]

\* the assertion of SPIWriteFrame.__post_init__
SPIWriteFrame_post_init(register) == Register[register].size = 16

read_or_write_bit(f) == IF f.READ_OR_WRITE_TYPE = "R" THEN 1 ELSE 0

SPIFrame_control_byte(f) ==
    BitOr(Shl(Register[f.register].address, 2), read_or_write_bit(f))

SPIFrame_data_byte_count(f) ==
    Register[f.register].size \div INA229_SPI_WORD_BIT_COUNT

SPIFrame_transmitted_data_byte_count(f) == 1 + SPIFrame_data_byte_count(f)

\* a read frame filled with all-ones bytes
SPIReadFrame_data_bytes_ones(f) == Repeat(255, SPIFrame_data_byte_count(f))

SPIReadFrame_data_bytes(f) == Repeat(0, SPIFrame_data_byte_count(f))

\* a variant that sends the low byte first
SPIWriteFrame_data_bytes_low_first(f) ==
    << BitAnd(f.data, Shl(1, INA229_SPI_WORD_BIT_COUNT) - 1),
       Shr(f.data, INA229_SPI_WORD_BIT_COUNT) >>

SPIWriteFrame_data_bytes(f) ==
    << Shr(f.data, INA229_SPI_WORD_BIT_COUNT),
       BitAnd(f.data, Shl(1, INA229_SPI_WORD_BIT_COUNT) - 1) >>

SPIFrame_data_bytes(f) ==
    IF f.READ_OR_WRITE_TYPE = "R" THEN SPIReadFrame_data_bytes(f)
    ELSE SPIWriteFrame_data_bytes(f)

SPIFrame_transmitted_data_bytes(f) ==
    <<SPIFrame_control_byte(f)>> \o SPIFrame_data_bytes(f)

\* the loop of parse_received_data over data_bytes[-data_byte_count:]
RECURSIVE parsed_data_loop(_, _, _)
parsed_data_loop(bytes, i, parsed_data) ==
    IF i > Len(bytes) THEN parsed_data
    ELSE parsed_data_loop(bytes, i + 1,
                          BigOr8(BigShl8(parsed_data), bytes[i]))

\* a variant that assembles data_bytes[:data_byte_count], echo byte included
SPIFrame_parse_received_data_head(f, data_bytes) ==
    IF Len(data_bytes) # SPIFrame_transmitted_data_byte_count(f)
    THEN Raise(<<>>, "AssertionError")
    ELSE IF data_bytes[1] # 0
    THEN Raise(<<>>, "AssertionError")
    ELSE Return(<<>>,
                parsed_data_loop(
                    Slice(data_bytes, 0, SPIFrame_data_byte_count(f)),
                    1, Big(0)))

SPIFrame_parse_received_data(f, data_bytes) ==
    IF Len(data_bytes) # SPIFrame_transmitted_data_byte_count(f)
    THEN Raise(<<>>, "AssertionError")
    ELSE IF data_bytes[1] # 0
    THEN Raise(<<>>, "AssertionError")
    ELSE Return(<<>>,
                parsed_data_loop(
                    LastSlice(data_bytes, SPIFrame_data_byte_count(f)),
                    1, Big(0)))

\* the first loop of spi_communicate: transmitted_data_bytes.extend(...)
RECURSIVE spi_communicate_extend(_, _, _)
spi_communicate_extend(spi_frames, i, transmitted_data_bytes) ==
    IF i > Len(spi_frames) THEN transmitted_data_bytes
    ELSE spi_communicate_extend(
             spi_frames, i + 1,
             transmitted_data_bytes
                 \o SPIFrame_transmitted_data_bytes(spi_frames[i]))

\* a variant that catches the exception of a parse and returns the values
\* parsed so far
RECURSIVE spi_communicate_parse_partial(_, _, _, _, _, _)
spi_communicate_parse_partial(spi_frames, xfers, received_data_bytes, i, begin, parsed_received_data) ==
    IF i > Len(spi_frames)
    THEN Return(xfers, parsed_received_data)
    ELSE LET end == begin
                    + SPIFrame_transmitted_data_byte_count(spi_frames[i])
             p == SPIFrame_parse_received_data(
                      spi_frames[i],
                      Slice(received_data_bytes, begin, end))
         IN  IF p.returned
             THEN spi_communicate_parse_partial(
                      spi_frames, xfers, received_data_bytes, i + 1, end,
                      Append(parsed_received_data, p.value))
             ELSE Return(xfers, parsed_received_data)

\* a variant that slices the bytes of every frame from the start of the
\* response
RECURSIVE spi_communicate_parse_from_start(_, _, _, _, _, _)
spi_communicate_parse_from_start(spi_frames, xfers, received_data_bytes, i, begin, parsed_received_data) ==
    IF i > Len(spi_frames)
    THEN Return(xfers, parsed_received_data)
    ELSE LET end == SPIFrame_transmitted_data_byte_count(spi_frames[i])
             p == SPIFrame_parse_received_data(
                      spi_frames[i],
                      Slice(received_data_bytes, 0, end))
         IN  IF p.returned
             THEN spi_communicate_parse_from_start(
                      spi_frames, xfers, received_data_bytes, i + 1, end,
                      Append(parsed_received_data, p.value))
             ELSE Raise(xfers, p.raised)

\* the second loop of spi_communicate: slice, parse, append; an exception
\* raised by a parse leaves the loop and the function
RECURSIVE spi_communicate_parse(_, _, _, _, _, _)
spi_communicate_parse(spi_frames, xfers, received_data_bytes, i, begin, parsed_received_data) ==
    IF i > Len(spi_frames)
    THEN IF Len(parsed_received_data) = Len(spi_frames)
         THEN Return(xfers, parsed_received_data)
         ELSE Raise(xfers, "AssertionError")
    ELSE LET end == begin
                    + SPIFrame_transmitted_data_byte_count(spi_frames[i])
             p == SPIFrame_parse_received_data(
                      spi_frames[i],
                      Slice(received_data_bytes, begin, end))
         IN  IF p.returned
             THEN spi_communicate_parse(
                      spi_frames, xfers, received_data_bytes, i + 1, end,
                      Append(parsed_received_data, p.value))
             ELSE Raise(xfers, p.raised)

\* a variant that transfers every frame on its own
spi_communicate_per_frame(spi_frames, received_data_bytes) ==
    LET transmitted_data_bytes ==
            spi_communicate_extend(spi_frames, 1, <<>>)
        xfers == [i \in 1..Len(spi_frames) |->
                     SPIFrame_transmitted_data_bytes(spi_frames[i])]
    IN  IF Len(transmitted_data_bytes) # Len(received_data_bytes)
        THEN Raise(xfers, "AssertionError")
        ELSE spi_communicate_parse(spi_frames, xfers, received_data_bytes,
                                   1, 0, <<>>)

\* a variant without the assertion on the length of the response
spi_communicate_unchecked_length(spi_frames, received_data_bytes) ==
    LET transmitted_data_bytes ==
            spi_communicate_extend(spi_frames, 1, <<>>)
        xfers == <<transmitted_data_bytes>>
    IN  spi_communicate_parse(spi_frames, xfers, received_data_bytes,
                              1, 0, <<>>)

\* spi_communicate(*spi_frames), the transport answering received_data_bytes
\* a batcher that catches the IOError of the transport and returns no values
spi_communicate_suppressed(spi_frames, received_data_bytes) ==
    LET transmitted_data_bytes == spi_communicate_extend(spi_frames, 1, <<>>)
        xfers == <<transmitted_data_bytes>>
    IN  IF received_data_bytes = IOError
        THEN Return(xfers, <<>>)
        ELSE IF Len(transmitted_data_bytes) # Len(received_data_bytes)
        THEN Raise(xfers, "AssertionError")
        ELSE spi_communicate_parse(spi_frames, xfers, received_data_bytes,
                                   1, 0, <<>>)

spi_communicate(spi_frames, received_data_bytes) ==
    LET transmitted_data_bytes ==
            spi_communicate_extend(spi_frames, 1, <<>>)
        xfers == <<transmitted_data_bytes>>
    IN  IF received_data_bytes = IOError
        THEN Raise(xfers, "IOError")
        ELSE IF Len(transmitted_data_bytes) # Len(received_data_bytes)
        THEN Raise(xfers, "AssertionError")
        ELSE spi_communicate_parse(spi_frames, xfers, received_data_bytes,
                                   1, 0, <<>>)

\* spi_communicate(...)[0]
first_of(r) == IF r.returned THEN Return(r.transfers, r.value[1]) ELSE r

\* a variant that transfers a second time when the first response fails
read_retry(register, received_data_bytes) ==
    LET r == spi_communicate(<<SPIReadFrame(register)>>,
                             received_data_bytes)
    IN  IF r.returned THEN first_of(r)
        ELSE Raise(r.transfers \o r.transfers, r.raised)

read(register, received_data_bytes) ==
    first_of(spi_communicate(<<SPIReadFrame(register)>>,
                             received_data_bytes))

write(register, data, received_data_bytes) ==
    IF ~SPIWriteFrame_post_init(register)
    THEN Raise(<<>>, "AssertionError")
    ELSE first_of(spi_communicate(<<SPIWriteFrame(register, data)>>,
                                  received_data_bytes))

\* CONFIGRegisterField: the bits of a field as range(start, stop)
CONFIGRegisterField ==
    [RST |-> <<15, 16>>, RSTACC |-> <<14, 15>>, CONVDLY |-> <<6, 14>>,
     TEMPCOMP |-> <<5, 6>>, ADCRANGE |-> <<4, 5>>, RESERVED |-> <<0, 4>>]

\* CONFIGRegisterField.bit of a field of one bit: bits[0]
CONFIGRegisterField_bit(field) == CONFIGRegisterField[field][1]

\* the integer a read of a register returned
int(v) == v.hi * LIMB + v.lo

\* a variant that writes the RST bit alone
reset_rst_only(received_by_read, received_by_write) ==
    LET r == read("CONFIG", received_by_read)
    IN  IF ~r.returned THEN r
        ELSE LET data == Shl(1, CONFIGRegisterField_bit("RST"))
                 w == write("CONFIG", data, received_by_write)
             IN  IF ~w.returned
                 THEN Raise(r.transfers \o w.transfers, w.raised)
                 ELSE Return(r.transfers \o w.transfers, None)

\* INA229.reset: CONFIG is read, the RST bit is set in what was read, and
\* the result is written to CONFIG; an exception of the read ends the call
reset(received_by_read, received_by_write) ==
    LET r == read("CONFIG", received_by_read)
    IN  IF ~r.returned THEN r
        ELSE LET data == BitOr(int(r.value),
                               Shl(1, CONFIGRegisterField_bit("RST")))
                 w == write("CONFIG", data, received_by_write)
             IN  IF ~w.returned
                 THEN Raise(r.transfers \o w.transfers, w.raised)
                 ELSE Return(r.transfers \o w.transfers, None)

\* a variant that rejects the maximum speed itself
INA229_post_init_speed_exclusive(spi) ==
    IF spi.mode \notin INA229_SPI_MODES
    THEN [raised |-> "unsupported spi mode", warnings |-> <<>>]
    ELSE IF spi.max_speed >= INA229_MAX_SPI_MAX_SPEED
    THEN [raised |-> "unsupported spi maximum speed", warnings |-> <<>>]
    ELSE IF spi.bit_order # INA229_SPI_BIT_ORDER
    THEN [raised |-> "unsupported spi bit order", warnings |-> <<>>]
    ELSE IF spi.bits_per_word # INA229_SPI_WORD_BIT_COUNT
    THEN [raised |-> "unsupported spi number of bits per word",
          warnings |-> <<>>]
    ELSE [raised |-> "",
          warnings |-> IF spi.extra_flags # 0 THEN <<spi.extra_flags>>
                       ELSE <<>>]

\* __post_init__ of INA229: the first violated check raises, then the
\* extra flags are warned about
INA229_post_init(spi) ==
    IF spi.mode \notin INA229_SPI_MODES
    THEN [raised |-> "unsupported spi mode", warnings |-> <<>>]
    ELSE IF spi.max_speed > INA229_MAX_SPI_MAX_SPEED
    THEN [raised |-> "unsupported spi maximum speed", warnings |-> <<>>]
    ELSE IF spi.bit_order # INA229_SPI_BIT_ORDER
    THEN [raised |-> "unsupported spi bit order", warnings |-> <<>>]
    ELSE IF spi.bits_per_word # INA229_SPI_WORD_BIT_COUNT
    THEN [raised |-> "unsupported spi number of bits per word",
          warnings |-> <<>>]
    ELSE [raised |-> "",
          warnings |-> IF spi.extra_flags # 0 THEN <<spi.extra_flags>>
                       ELSE <<>>]

(***************************************************************************)
(* mcp23s17.py                                                             *)
(***************************************************************************)
MCP23S17_SPI_MODES == {0, 3}

MCP23S17_MAX_SPI_MAX_SPEED == 10000000

MCP23S17_SPI_BIT_ORDER == "msb"

MCP23S17_SPI_WORD_BIT_COUNT == 8

\* Read(hardware_address, register_address, data_byte_count)
Read(hardware_address, register_address, data_byte_count) ==
    [READ_OR_WRITE_BIT |-> 1, hardware_address |-> hardware_address,
     register_address |-> register_address,
     data_byte_count |-> data_byte_count, data_bytes |-> <<>>]

\* Write(hardware_address, register_address, data_bytes)
Write(hardware_address, register_address, data_bytes) ==
    [READ_OR_WRITE_BIT |-> 0, hardware_address |-> hardware_address,
     register_address |-> register_address,
     data_byte_count |-> 0, data_bytes |-> data_bytes]

Operation_control_byte(op) ==
    BitOr(BitOr(Shl(4, 4), Shl(op.hardware_address, 1)),
          op.READ_OR_WRITE_BIT)

Operation_data_byte_count(op) ==
    IF op.READ_OR_WRITE_BIT = 1 THEN op.data_byte_count
    ELSE Len(op.data_bytes)

Operation_data_bytes(op) ==
    IF op.READ_OR_WRITE_BIT = 1
    THEN Repeat(Shl(1, MCP23S17_SPI_WORD_BIT_COUNT) - 1, op.data_byte_count)
    ELSE op.data_bytes

Operation_transmitted_data_bytes(op) ==
    <<Operation_control_byte(op), op.register_address>>
        \o Operation_data_bytes(op)

\* a count that leaves out the register address byte
Operation_transmitted_data_byte_count_one_header(op) ==
    1 + Operation_data_byte_count(op)

Operation_transmitted_data_byte_count(op) ==
    2 + Operation_data_byte_count(op)

Operation_parse_received_data_bytes(op, data_bytes) ==
    LastSlice(data_bytes, Operation_data_byte_count(op))

\* the first loop of operate
RECURSIVE operate_extend(_, _, _)
operate_extend(operations, i, transmitted_data_bytes) ==
    IF i > Len(operations) THEN transmitted_data_bytes
    ELSE operate_extend(
             operations, i + 1,
             transmitted_data_bytes
                 \o Operation_transmitted_data_bytes(operations[i]))

\* the second loop of operate
RECURSIVE operate_parse(_, _, _, _, _)
operate_parse(operations, received_data_bytes, i, begin, parsed_received_data_bytes) ==
    IF i > Len(operations) THEN parsed_received_data_bytes
    ELSE LET end == begin
                    + Operation_transmitted_data_byte_count(operations[i])
         IN  operate_parse(
                 operations, received_data_bytes, i + 1, end,
                 parsed_received_data_bytes
                     \o Operation_parse_received_data_bytes(
                            operations[i],
                            Slice(received_data_bytes, begin, end)))

\* operate(*operations), the transport answering received_data_bytes
operate(operations, received_data_bytes) ==
    LET transmitted_data_bytes == operate_extend(operations, 1, <<>>)
    IN  IF received_data_bytes = IOError
        THEN Raise(<<transmitted_data_bytes>>, "IOError")
        ELSE Return(<<transmitted_data_bytes>>,
                    operate_parse(operations, received_data_bytes, 1, 0,
                                  <<>>))

\* a variant that checks the bit order before the mode and the speed
MCP23S17_post_init_bit_order_first(spi) ==
    IF spi.bit_order # MCP23S17_SPI_BIT_ORDER
    THEN [raised |-> "unsupported spi bit order", warnings |-> <<>>]
    ELSE IF spi.mode \notin MCP23S17_SPI_MODES
    THEN [raised |-> "unsupported spi mode", warnings |-> <<>>]
    ELSE IF spi.max_speed > MCP23S17_MAX_SPI_MAX_SPEED
    THEN [raised |-> "unsupported spi maximum speed", warnings |-> <<>>]
    ELSE IF spi.bits_per_word # MCP23S17_SPI_WORD_BIT_COUNT
    THEN [raised |-> "unsupported spi number of bits per word",
          warnings |-> <<>>]
    ELSE [raised |-> "",
          warnings |-> IF spi.extra_flags # 0 THEN <<spi.extra_flags>>
                       ELSE <<>>]

MCP23S17_post_init(spi) ==
    IF spi.mode \notin MCP23S17_SPI_MODES
    THEN [raised |-> "unsupported spi mode", warnings |-> <<>>]
    ELSE IF spi.max_speed > MCP23S17_MAX_SPI_MAX_SPEED
    THEN [raised |-> "unsupported spi maximum speed", warnings |-> <<>>]
    ELSE IF spi.bit_order # MCP23S17_SPI_BIT_ORDER
    THEN [raised |-> "unsupported spi bit order", warnings |-> <<>>]
    ELSE IF spi.bits_per_word # MCP23S17_SPI_WORD_BIT_COUNT
    THEN [raised |-> "unsupported spi number of bits per word",
          warnings |-> <<>>]
    ELSE [raised |-> "",
          warnings |-> IF spi.extra_flags # 0 THEN <<spi.extra_flags>>
                       ELSE <<>>]

(***************************************************************************)
(* ltc6810.py                                                              *)
(***************************************************************************)
LTC6810_SPI_MODE == 3

LTC6810_MIN_SPI_MAX_SPEED == 3000000

LTC6810_MAX_SPI_MAX_SPEED == 3500000

LTC6810_SPI_BIT_ORDER == "msb"

LTC6810_SPI_WORD_BIT_COUNT == 8

\* a variant that warns about the extra flags before it validates
LTC6810_post_init_warn_first(spi) ==
    LET warned == IF spi.extra_flags # 0 THEN <<spi.extra_flags>> ELSE <<>>
    IN  IF spi.mode # LTC6810_SPI_MODE
        THEN [raised |-> "unsupported spi mode", warnings |-> warned]
        ELSE IF ~(LTC6810_MIN_SPI_MAX_SPEED <= spi.max_speed
                  /\ spi.max_speed <= LTC6810_MAX_SPI_MAX_SPEED)
        THEN [raised |-> "unsupported spi maximum speed",
              warnings |-> warned]
        ELSE IF spi.bit_order # LTC6810_SPI_BIT_ORDER
        THEN [raised |-> "unsupported spi bit order", warnings |-> warned]
        ELSE IF spi.bits_per_word # LTC6810_SPI_WORD_BIT_COUNT
        THEN [raised |-> "unsupported spi number of bits per word",
              warnings |-> warned]
        ELSE [raised |-> "", warnings |-> warned]

LTC6810_post_init(spi) ==
    IF spi.mode # LTC6810_SPI_MODE
    THEN [raised |-> "unsupported spi mode", warnings |-> <<>>]
    ELSE IF ~(LTC6810_MIN_SPI_MAX_SPEED <= spi.max_speed
              /\ spi.max_speed <= LTC6810_MAX_SPI_MAX_SPEED)
    THEN [raised |-> "unsupported spi maximum speed", warnings |-> <<>>]
    ELSE IF spi.bit_order # LTC6810_SPI_BIT_ORDER
    THEN [raised |-> "unsupported spi bit order", warnings |-> <<>>]
    ELSE IF spi.bits_per_word # LTC6810_SPI_WORD_BIT_COUNT
    THEN [raised |-> "unsupported spi number of bits per word",
          warnings |-> <<>>]
    ELSE [raised |-> "",
          warnings |-> IF spi.extra_flags # 0 THEN <<spi.extra_flags>>
                       ELSE <<>>]

\* get_voltage: data / 10000 of the little-endian 16-bit data, carried as
\* the fraction data / 10000 (each LSB is 100 uV)
get_voltage(data_bytes) ==
    IF Len(data_bytes) # 2
    THEN [raised |-> "AssertionError", value |-> NoValue]
    ELSE LET data == BitOr(Shl(data_bytes[2], 8), data_bytes[1])
         IN  [raised |-> "", value |-> [numerator |-> data,
                                        denominator |-> 10000]]

\* Python evaluates the operands of a call before the call: e, once x has
\* been evaluated (the model checker would defer x until it is read)
Strict(x, e) == IF x = x THEN e ELSE e

\* l[i] of a Python list, which counts its elements from 0
At(l, i) == l[i + 1]

\* PEC = [False] * 15; PEC[4] = True
PEC_seed ==
    <<FALSE, FALSE, FALSE, FALSE, TRUE, FALSE, FALSE, FALSE, FALSE, FALSE,
      FALSE, FALSE, FALSE, FALSE, FALSE>>

\* a register without the feedback into PEC[7]
PEC_shift_no_tap7(P, DIN) ==
    LET IN0 == DIN # At(P, 14)
        IN3 == IN0 # At(P, 2)
        IN4 == IN0 # At(P, 3)
        IN8 == IN0 # At(P, 7)
        IN10 == IN0 # At(P, 9)
        IN14 == IN0 # At(P, 13)
    IN  <<IN0, At(P, 0), At(P, 1), IN3, IN4, At(P, 4), At(P, 5), At(P, 6),
          IN8, At(P, 8), IN10, At(P, 10), At(P, 11), At(P, 12), IN14>>

\* one pass of the inner loop: the bit DIN is shifted into the register P;
\* the list is PEC[0], ..., PEC[14] after the fifteen assignments
PEC_shift(P, DIN) ==
    LET IN0 == DIN # At(P, 14)
        IN3 == IN0 # At(P, 2)
        IN4 == IN0 # At(P, 3)
        IN7 == IN0 # At(P, 6)
        IN8 == IN0 # At(P, 7)
        IN10 == IN0 # At(P, 9)
        IN14 == IN0 # At(P, 13)
    IN  <<IN0, At(P, 0), At(P, 1), IN3, IN4, At(P, 4), At(P, 5), IN7, IN8,
          At(P, 8), IN10, At(P, 10), At(P, 11), At(P, 12), IN14>>

\* for i in range(7, -1, -1): DIN = bool(data_byte & (1 << i)); ...
RECURSIVE PEC_bits(_, _, _)
PEC_bits(P, data_byte, i) ==
    Strict(P, IF i < 0 THEN P
              ELSE PEC_bits(PEC_shift(P, BitAnd(data_byte, Shl(1, i)) # 0),
                            data_byte, i - 1))

\* for data_byte in data_bytes: ...
RECURSIVE PEC_bytes(_, _, _)
PEC_bytes(P, data_bytes, k) ==
    Strict(P, IF k > Len(data_bytes) THEN P
              ELSE PEC_bytes(PEC_bits(P, data_bytes[k], 7), data_bytes,
                             k + 1))

\* for i, PEC_bit in enumerate(PEC): bit = PEC_bit << i; ...
RECURSIVE PEC_output(_, _, _, _)
PEC_output(P, i, PEC0, PEC1) ==
    IF i > 14 THEN <<PEC0, PEC1>>
    ELSE LET bit == Shl(IF At(P, i) THEN 1 ELSE 0, i)
         IN  IF i < 7
             THEN PEC_output(P, i + 1, PEC0, BitOr(PEC1, Shl(bit, 1)))
             ELSE PEC_output(P, i + 1, BitOr(PEC0, Shr(bit, 7)), PEC1)

\* a register that is not re-seeded: the computation goes on from the
\* register the last computation left
get_packet_error_code_register_carried(data_bytes) ==
    PEC_bytes(PEC, data_bytes, 1)

\* the register after the loop over data_bytes, from a fresh list PEC
get_packet_error_code_register(data_bytes) ==
    PEC_bytes(PEC_seed, data_bytes, 1)

\* a variant that returns the low byte before the high byte
get_packet_error_code_bytes_low_first(data_bytes) ==
    LET bytes == PEC_output(get_packet_error_code_register(data_bytes), 0, 0,
                            0)
    IN  <<bytes[2], bytes[1]>>

get_packet_error_code_bytes(data_bytes) ==
    PEC_output(get_packet_error_code_register(data_bytes), 0, 0, 0)

get_broadcast_command_bytes(command) ==
    LET CMD0 == Shr(command, 8)
        CMD1 == BitAnd(command, Shl(1, 8) - 1)
    IN  <<CMD0, CMD1>>

get_address_command_bytes(address, command) ==
    LET CMD == get_broadcast_command_bytes(command)
        CMD0 == BitOr(CMD[1], BitOr(Shl(1, 7), Shl(address, 3)))
    IN  <<CMD0, CMD[2]>>

get_address_poll_command_bytes(address, command, poll_data_byte_count) ==
    LET command_bytes == get_address_command_bytes(address, command)
        poll_data_bytes == Repeat(Shl(1, 8) - 1, poll_data_byte_count)
    IN  command_bytes \o get_packet_error_code_bytes(command_bytes)
            \o poll_data_bytes

get_address_write_command_bytes(address, command, data_bytes) ==
    LET command_bytes == get_broadcast_command_bytes(command)
    IN  command_bytes \o get_packet_error_code_bytes(command_bytes)
            \o data_bytes \o get_packet_error_code_bytes(data_bytes)

get_address_read_command_bytes(address, command, data_byte_count) ==
    LET data_bytes == Repeat(Shl(1, 8) - 1, data_byte_count)
    IN  get_address_write_command_bytes(address, command, data_bytes)

\* the three get_voltage calls of a register group, in order; the first
\* that raises ends the read
RECURSIVE CellVoltageRegisterGroup(_, _, _, _)
CellVoltageRegisterGroup(xfers, received_bytes, k, voltages) ==
    IF k > 3 THEN Return(xfers, voltages)
    ELSE LET v == get_voltage(Slice(received_bytes, 2 * (k - 1), 2 * k))
         IN  IF v.raised # "" THEN Raise(xfers, v.raised)
             ELSE CellVoltageRegisterGroup(xfers, received_bytes, k + 1,
                                           Append(voltages, v.value))

\* the body shared by read_cell_voltage_register_group_a and _b, which
\* differ in the command only
read_cell_voltage_register_group(address, command, received) ==
    IF address = None THEN Raise(<<>>, "NotImplementedError")
    ELSE LET transmitted_bytes ==
                 get_address_read_command_bytes(address[1], command, 6)
             xfers == <<transmitted_bytes>>
         IN  IF received = IOError THEN Raise(xfers, "IOError")
             ELSE CellVoltageRegisterGroup(xfers, LastSlice(received, 6),
                                           1, <<>>)

read_cell_voltage_register_group_a(address, received) ==
    read_cell_voltage_register_group(address, 4, received)

read_cell_voltage_register_group_b(address, received) ==
    read_cell_voltage_register_group(address, 6, received)

\* LTC6810.ADCMode: the mode bits and the two conversion times of a mode.
\* The times are seconds in the source and whole microseconds here
ADCMode ==
    [M27000 |-> [mode |-> 1, all_cells_total_conversion_time |-> 524,
                 cell_total_conversion_time |-> 200],
     M14000 |-> [mode |-> 1, all_cells_total_conversion_time |-> 699,
                 cell_total_conversion_time |-> 229],
     M7000 |-> [mode |-> 2, all_cells_total_conversion_time |-> 1200,
                cell_total_conversion_time |-> 404],
     M3000 |-> [mode |-> 2, all_cells_total_conversion_time |-> 1900,
                cell_total_conversion_time |-> 520],
     M2000 |-> [mode |-> 3, all_cells_total_conversion_time |-> 3300,
                cell_total_conversion_time |-> 753],
     M1000 |-> [mode |-> 0, all_cells_total_conversion_time |-> 6100,
                cell_total_conversion_time |-> 1200],
     M422 |-> [mode |-> 0, all_cells_total_conversion_time |-> 12000,
               cell_total_conversion_time |-> 2100],
     M26 |-> [mode |-> 3, all_cells_total_conversion_time |-> 201000,
              cell_total_conversion_time |-> 34000]]

\* what a call does that the outside sees, in the order it does it: a
\* transfer that was issued and has come back, and a blocking _sleep
spi_transfer(transmitted_bytes) ==
    [kind |-> "transfer", data |-> transmitted_bytes, timeout |-> 0]

sleep_for(timeout) == [kind |-> "sleep", data |-> <<>>, timeout |-> timeout]

\* a variant that waits for the conversion before it sends the command
start_cell_voltage_adc_conversion_and_poll_status_sleep_first(adc_mode, channel, address, sleep, received) ==
    LET command == BitOr(BitOr(608, Shl(ADCMode[adc_mode].mode, 7)), channel)
    IN  IF address = None
        THEN [transfers |-> <<>>, raised |-> "NotImplementedError",
              returned |-> FALSE, value |-> NoValue, events |-> <<>>]
        ELSE LET transmitted_bytes ==
                     get_address_poll_command_bytes(address[1], command, 0)
                 timeout ==
                     IF channel # 0
                     THEN ADCMode[adc_mode].cell_total_conversion_time
                     ELSE ADCMode[adc_mode].all_cells_total_conversion_time
                 waited == IF sleep THEN <<sleep_for(timeout)>> ELSE <<>>
             IN  [transfers |-> <<transmitted_bytes>>,
                  raised |-> IF received = IOError THEN "IOError" ELSE "",
                  returned |-> received # IOError, value |-> None,
                  events |-> waited \o <<spi_transfer(transmitted_bytes)>>]

\* LTC6810.start_cell_voltage_adc_conversion_and_poll_status: the command is
\* 0b01001100000 with the mode bits at bit 7 and the channel; without an
\* address it raises; with one the poll command goes to the bus and, if
\* sleep is true, the call then blocks for the conversion time of the mode:
\* that of one cell for a channel, that of all cells for channel 0.  An
\* IOError of the transfer ends the call before the wait
start_cell_voltage_adc_conversion_and_poll_status(adc_mode, channel, address, sleep, received) ==
    LET command == BitOr(BitOr(608, Shl(ADCMode[adc_mode].mode, 7)), channel)
    IN  IF address = None
        THEN [transfers |-> <<>>, raised |-> "NotImplementedError",
              returned |-> FALSE, value |-> NoValue, events |-> <<>>]
        ELSE LET transmitted_bytes ==
                     get_address_poll_command_bytes(address[1], command, 0)
                 timeout ==
                     IF channel # 0
                     THEN ADCMode[adc_mode].cell_total_conversion_time
                     ELSE ADCMode[adc_mode].all_cells_total_conversion_time
                 transferred == <<spi_transfer(transmitted_bytes)>>
             IN  IF received = IOError
                 THEN [transfers |-> <<transmitted_bytes>>,
                       raised |-> "IOError", returned |-> FALSE,
                       value |-> NoValue, events |-> transferred]
                 ELSE [transfers |-> <<transmitted_bytes>>, raised |-> "",
                       returned |-> TRUE, value |-> None,
                       events |-> IF sleep
                                  THEN Append(transferred, sleep_for(timeout))
                                  ELSE transferred]

(***************************************************************************)
(* bno055.py                                                               *)
(***************************************************************************)
BNO055_Register ==
    [CHIP_ID |-> 0, ACC_DATA_X_LSB |-> 8, ACC_DATA_X_MSB |-> 9,
     ACC_DATA_Y_LSB |-> 10, ACC_DATA_Y_MSB |-> 11, ACC_DATA_Z_LSB |-> 12,
     ACC_DATA_Z_MSB |-> 13, GYR_DATA_X_LSB |-> 20, GYR_DATA_X_MSB |-> 21,
     GYR_DATA_Y_LSB |-> 22, GYR_DATA_Y_MSB |-> 23, GYR_DATA_Z_LSB |-> 24,
     GYR_DATA_Z_MSB |-> 25, QUA_DATA_W_LSB |-> 32, QUA_DATA_W_MSB |-> 33,
     QUA_DATA_X_LSB |-> 34, QUA_DATA_X_MSB |-> 35, QUA_DATA_Y_LSB |-> 36,
     QUA_DATA_Y_MSB |-> 37, QUA_DATA_Z_LSB |-> 38, QUA_DATA_Z_MSB |-> 39,
     TEMP |-> 52, UNIT_SEL |-> 59, OPR_MODE |-> 61]

BNO055_ADDRESS == 40

\* I2C.Message(data, read=...)
I2C_Message(data, read_flag) == [data |-> data, read |-> read_flag]

\* bytearray(length): length zero bytes
bytearray(length) == Repeat(0, length)

\* self.i2c.transfer(address, messages), as it is handed to the transport
I2C_transfer(address, messages) ==
    [address |-> address, messages |-> messages]

\* BNO055.write; an IOError of the transport is logged and raised again
bno055_write(register, data, received) ==
    LET msg == I2C_Message(<<BNO055_Register[register], data>>, FALSE)
        xfers == <<I2C_transfer(BNO055_ADDRESS, <<msg>>)>>
    IN  IF received = IOError THEN Raise(xfers, "IOError")
        ELSE Return(xfers, None)

\* BNO055.read: the transport fills the buffer of read_msg with the bytes
\* it received, which are returned; an IOError is logged and raised again
bno055_read(register, length, received) ==
    LET read_msg == I2C_Message(bytearray(length), TRUE)
        xfers == <<I2C_transfer(BNO055_ADDRESS, <<read_msg>>)>>
    IN  IF received = IOError THEN Raise(xfers, "IOError")
        ELSE Return(xfers, received)


\* an attribute that was never assigned
Unset == <<>>

\* the class BNO055.Data_Return and its nested classes after the class
\* statement: the annotated fields have no defaults, so none is a class
\* attribute yet.  An attribute is Unset or <<value>>
Data_Return_class ==
    [Acceleration_Data |-> [x |-> Unset, y |-> Unset, z |-> Unset],
     Gyro_Data |-> [x |-> Unset, y |-> Unset, z |-> Unset],
     Quaternion_Data |-> [x |-> Unset, w |-> Unset, z |-> Unset],
     acceleration |-> Unset, quaternion |-> Unset, gyro |-> Unset,
     temperature |-> Unset]

\* the position of the first answer at which the transport raises, 0 if none
RECURSIVE first_raise(_, _)
first_raise(rx, i) ==
    IF i > Len(rx) THEN 0
    ELSE IF rx[i] = IOError THEN i
    ELSE first_raise(rx, i + 1)

\* the statements self.read(register, 1) of a method, one register after
\* the other and answered by rx in turn; the first read that raises ends the
\* method.  D are the class attributes the method leaves
bno055_reads(registers, rx, D) ==
    LET failed == first_raise(rx, 1)
        done == IF failed = 0 THEN Len(registers) ELSE failed
    IN  [transfers |->
             [i \in 1..done |->
                 bno055_read(registers[i], 1, rx[i]).transfers[1]],
         reads |->
             [i \in 1..done |->
                 [kind |-> "read", register |-> registers[i], length |-> 1]],
         raised |-> IF failed = 0 THEN "" ELSE "IOError",
         returned |-> FALSE, value |-> NoValue, Data_Return |-> D]

\* a method returns value and leaves the class attributes D
bno055_return(run, value, D) ==
    [run EXCEPT !.returned = TRUE, !.value = value, !.Data_Return = D]

\* the statements of then follow those of first, which did not raise
bno055_then(first, then) ==
    [then EXCEPT !.transfers = first.transfers \o then.transfers,
                 !.reads = first.reads \o then.reads]

\* a float, carried as an exact fraction
float(numerator, denominator) ==
    [numerator |-> numerator, denominator |-> denominator]

\* BNO055.read_quaternion: six reads, the LSB of a component before its
\* MSB and no read of Y; the sums are assigned to attributes of the class
\* Quaternion_Data, and the class is what is returned
read_quaternion(D, rx) ==
    LET run == bno055_reads(<<"QUA_DATA_W_LSB", "QUA_DATA_W_MSB",
                              "QUA_DATA_X_LSB", "QUA_DATA_X_MSB",
                              "QUA_DATA_Z_LSB", "QUA_DATA_Z_MSB">>, rx, D)
        data_w_lsb == rx[1][1]
        data_w_msb == rx[2][1] * 256
        data_x_lsb == rx[3][1]
        data_x_msb == rx[4][1] * 256
        data_z_lsb == rx[5][1]
        data_z_msb == rx[6][1] * 256
    IN  IF run.raised # "" THEN run
        ELSE bno055_return(run, "Quaternion_Data",
                 [D EXCEPT !.Quaternion_Data =
                     [w |-> <<data_w_lsb + data_w_msb>>,
                      x |-> <<data_x_lsb + data_x_msb>>,
                      z |-> <<data_z_lsb + data_z_msb>>]])

\* BNO055.read_temperature
read_temperature(D, rx) ==
    LET run == bno055_reads(<<"TEMP">>, rx, D)
    IN  IF run.raised # "" THEN run
        ELSE bno055_return(run, rx[1][1], D)

\* BNO055.read_acceleration: the three LSBs, then the three MSBs, each
\* divided by 100.0; MSB * 256 + LSB is assigned to attributes of the class
\* Acceleration_Data, and the class is what is returned
read_acceleration(D, rx) ==
    LET run == bno055_reads(<<"ACC_DATA_X_LSB", "ACC_DATA_Y_LSB",
                              "ACC_DATA_Z_LSB", "ACC_DATA_X_MSB",
                              "ACC_DATA_Y_MSB", "ACC_DATA_Z_MSB">>, rx, D)
    IN  IF run.raised # "" THEN run
        ELSE bno055_return(run, "Acceleration_Data",
                 [D EXCEPT !.Acceleration_Data =
                     [x |-> <<float(rx[4][1] * 256 + rx[1][1], 100)>>,
                      y |-> <<float(rx[5][1] * 256 + rx[2][1], 100)>>,
                      z |-> <<float(rx[6][1] * 256 + rx[3][1], 100)>>]])

\* BNO055.read_gyro: as read_acceleration, with the GYR registers and 16.0
read_gyro(D, rx) ==
    LET run == bno055_reads(<<"GYR_DATA_X_LSB", "GYR_DATA_Y_LSB",
                              "GYR_DATA_Z_LSB", "GYR_DATA_X_MSB",
                              "GYR_DATA_Y_MSB", "GYR_DATA_Z_MSB">>, rx, D)
    IN  IF run.raised # "" THEN run
        ELSE bno055_return(run, "Gyro_Data",
                 [D EXCEPT !.Gyro_Data =
                     [x |-> <<float(rx[4][1] * 256 + rx[1][1], 16)>>,
                      y |-> <<float(rx[5][1] * 256 + rx[2][1], 16)>>,
                      z |-> <<float(rx[6][1] * 256 + rx[3][1], 16)>>]])

\* BNO055.read_all_data: the four reads in turn, each result assigned to an
\* attribute of the class Data_Return as soon as it is there; the class is
\* what is returned
read_all_data(D, rx) ==
    LET a == read_acceleration(D, Slice(rx, 0, 6))
        Da == [a.Data_Return EXCEPT !.acceleration = <<a.value>>]
        q == bno055_then(a, read_quaternion(Da, Slice(rx, 6, 12)))
        Dq == [q.Data_Return EXCEPT !.quaternion = <<q.value>>]
        g == bno055_then(q, read_gyro(Dq, Slice(rx, 12, 18)))
        Dg == [g.Data_Return EXCEPT !.gyro = <<g.value>>]
        t == bno055_then(g, read_temperature(Dg, Slice(rx, 18, 19)))
        Dt == [t.Data_Return EXCEPT !.temperature = <<t.value>>]
    IN  IF a.raised # "" THEN a
        ELSE IF q.raised # "" THEN q
        ELSE IF g.raised # "" THEN g
        ELSE IF t.raised # "" THEN t
        ELSE bno055_return(t, "Data_Return", Dt)

\* what the holder of a result sees through it: the attributes of the class
\* the result is, in the class attributes D
attributes(D, result) ==
    IF result = "Data_Return" THEN D ELSE D[result]

\* no result is held
NoHeld == [handle |-> 0, op |-> "", result |-> "", seen |-> <<>>]

\* the unit codes of Operation_Modes
Operation_Modes ==
    [ms2 |-> 0, mg |-> 1, DPS |-> 0, RPS |-> 2, Degrees |-> 0, Radians |-> 4,
     C |-> 0, F |-> 16]

\* the if / elif / else of set_units for one selector: the local variable is
\* bound to the code of zero or of one, and stays unbound for anything else
unit_reg(selector, zero, one) ==
    IF selector = 0 THEN <<Operation_Modes[zero]>>
    ELSE IF selector = 1 THEN <<Operation_Modes[one]>>
    ELSE Unset

\* Python's a or b over local variables: a when it is true, else b; an
\* unbound variable raises when it is evaluated.  The result is <<value>>,
\* or Unset when an unbound variable was evaluated
py_or(a, b) ==
    IF a = Unset THEN Unset
    ELSE IF a[1] # 0 THEN a
    ELSE b

\* BNO055.set_units
set_units(accel_unit, ang_rate, euler_ang, temp, received) ==
    LET temp_reg == unit_reg(temp, "C", "F")
        euler_reg == unit_reg(euler_ang, "Degrees", "Radians")
        rate_reg == unit_reg(ang_rate, "DPS", "RPS")
        accel_reg == unit_reg(accel_unit, "ms2", "mg")
        input_reg == py_or(accel_reg, py_or(rate_reg,
                                            py_or(euler_reg, temp_reg)))
    IN  IF input_reg = Unset THEN Raise(<<>>, "UnboundLocalError")
        ELSE bno055_write("UNIT_SEL", input_reg[1], received)

(***************************************************************************)
(* tmag5273.py                                                             *)
(***************************************************************************)
TMAG5273_Register == [DEVICE_CONFIG_1 |-> 0]

Variant == [A1 |-> [variant |-> 1, address |-> 53]]

Enable == [DISABLE |-> 0, ENABLE |-> 1]

MagnetTemperatureCoeff == [DISABLE |-> 0, NdBFe |-> 1, CERAMIC |-> 3]

ConversionAvg ==
    [SAMPLE_1X |-> 0, SAMPLE_2X |-> 1, SAMPLE_4X |-> 2, SAMPLE_8X |-> 3,
     SAMPLE_16X |-> 4, SAMPLE_32X |-> 5]

I2CReadMode ==
    [STANDARD_3BYTE |-> 0, SHORT_16BIT_DATA |-> 1, SHORT_8BIT_DATA |-> 2]

\* a TMAH5273 of variant A1 after construction: the defaults of the fields
\* and the address of the variant; the attributes that only device_config_1
\* creates do not exist yet
TMAG5273_class ==
    [address |-> Variant.A1.address,
     _crc_enable |-> Enable.DISABLE,
     _magnet_temperature_coeff |-> MagnetTemperatureCoeff.DISABLE,
     _conversion_avg |-> ConversionAvg.SAMPLE_1X,
     _i2c_read_mode |-> I2CReadMode.STANDARD_3BYTE,
     _angular_velocity_unit |-> Unset, _angle_unit |-> Unset,
     _temperature_unit |-> Unset]

\* TMAH5273.write: one message [register, data]; an IOError of the
\* transport is not caught
tmag5273_write(self, register, data, received) ==
    LET message == I2C_Message(<<TMAG5273_Register[register], data>>, FALSE)
        xfers == <<I2C_transfer(self.address, <<message>>)>>
    IN  IF received = IOError THEN Raise(xfers, "IOError")
        ELSE Return(xfers, None)

\* the byte device_config_1 computes
device_config_1_raw_byte(crc_enable, magnet_temperature_coeff, conversion_avg, i2c_read_mode) ==
    BitOr(BitOr(BitOr(Shl(crc_enable, 7), Shl(magnet_temperature_coeff, 5)),
                Shl(conversion_avg, 2)), i2c_read_mode)

\* TMAH5273.device_config_1: crc_enable is stored in its field, the other
\* three arguments in _angular_velocity_unit, _angle_unit and
\* _temperature_unit; then the byte is written.  The result is the outcome
\* of the write with the object as the method leaves it
device_config_1(self, crc_enable, magnet_temperature_coeff, conversion_avg, i2c_read_mode, received) ==
    LET stored ==
            [self EXCEPT !._crc_enable = crc_enable,
                         !._angular_velocity_unit =
                             <<magnet_temperature_coeff>>,
                         !._angle_unit = <<conversion_avg>>,
                         !._temperature_unit = <<i2c_read_mode>>]
        raw_byte == device_config_1_raw_byte(crc_enable,
                        magnet_temperature_coeff, conversion_avg,
                        i2c_read_mode)
        written == tmag5273_write(stored, "DEVICE_CONFIG_1", raw_byte,
                                  received)
    IN  [transfers |-> written.transfers, raised |-> written.raised,
         returned |-> written.returned, value |-> written.value,
         self |-> stored]

\* the getters of the four properties
crc_enable(self) == self._crc_enable

magnet_temperature_coeff(self) == self._magnet_temperature_coeff

conversion_avg(self) == self._conversion_avg

i2c_read_mode(self) == self._i2c_read_mode

\* the setters of the four properties
crc_enable_setter(self, value, received) ==
    device_config_1(self, value, self._magnet_temperature_coeff,
                    self._conversion_avg, self._i2c_read_mode, received)

magnet_temperature_coeff_setter(self, value, received) ==
    device_config_1(self, self._crc_enable, value, self._conversion_avg,
                    self._i2c_read_mode, received)

conversion_avg_setter(self, value, received) ==
    device_config_1(self, self._crc_enable, self._magnet_temperature_coeff,
                    value, self._i2c_read_mode, received)

i2c_read_mode_setter(self, value, received) ==
    device_config_1(self, self._crc_enable, self._magnet_temperature_coeff,
                    self._conversion_avg, value, received)

(***************************************************************************)
(* The inputs of the model.                                                *)
(***************************************************************************)
\* bus configurations a periphery.SPI handle can report
SpiModes == 0..3

SpiSpeeds ==
    {0, 2999999, 3000000, 3250000, 3500000, 3500001, 10000000, 10000001}

SpiBitOrders == {"msb", "lsb"}

SpiWordSizes == {7, 8, 16}

SpiExtraFlags == {0, 1, 128}

SpiConfigs ==
    [mode : SpiModes, max_speed : SpiSpeeds, bit_order : SpiBitOrders,
     bits_per_word : SpiWordSizes, extra_flags : SpiExtraFlags]

\* values written to a 16-bit register
WriteData == {0, 4660, 65535}

\* registers whose frames are batched: every width, the lowest and the
\* highest address
BatchRegisters == {"CONFIG", "SHUNT_CAL", "VSHUNT", "ENERGY", "DEVICE_ID"}

\* values written by the frames of a batch
BatchData == {4660, 65535}

\* the frames that can be built for these registers
BatchFrames ==
    {SPIReadFrame(r) : r \in BatchRegisters}
        \cup {SPIWriteFrame(r, d) :
                r \in {x \in BatchRegisters : SPIWriteFrame_post_init(x)},
                d \in BatchData}

\* operations that are batched
BatchOperations ==
    {Read(t[1], t[2], n) : t \in {<<0, 0>>, <<7, 10>>}, n \in 0..MaxDataBytes}
        \cup {Write(3, 9, Repeat(165, n)) : n \in 0..MaxDataBytes}

\* all sequences over S of length at most n
RECURSIVE SeqsUpTo(_, _)
SeqsUpTo(S, n) ==
    IF n = 0 THEN {<<>>}
    ELSE LET shorter == SeqsUpTo(S, n - 1)
         IN  shorter \cup {Append(s, x) : s \in shorter, x \in S}

RECURSIVE SumTo(_, _)
SumTo(counts, j) == IF j = 0 THEN 0 ELSE counts[j] + SumTo(counts, j - 1)

\* the frame whose first (echo) byte is at position p of the buffer, or 0
EchoFrame(counts, p) ==
    IF \E j \in 1..Len(counts) : SumTo(counts, j - 1) + 1 = p
    THEN CHOOSE j \in 1..Len(counts) : SumTo(counts, j - 1) + 1 = p
    ELSE 0

\* a response of n bytes: distinct data bytes, a zero echo byte for every
\* frame but frame bad, whose echo byte is 128
Response(counts, n, seed, bad) ==
    [p \in 1..n |->
        LET j == EchoFrame(counts, p)
        IN  IF j = 0 THEN (seed + 37 * p) % 256
            ELSE IF j = bad THEN 128 ELSE 0]

ResponseSeeds == {1, 100}

\* the transmitted bytes with a zero in place of every echo byte
ZeroEcho(counts, transmitted) ==
    [p \in 1..Len(transmitted) |->
        IF EchoFrame(counts, p) # 0 THEN 0 ELSE transmitted[p]]

\* what transfer may answer to transmitted: the bytes themselves (a
\* loopback), the same behind zero echo bytes, a response of the same length
\* in which at most one echo byte is not zero, or a response one byte
\* shorter or one byte longer; or it raises IOError
Responses(counts, transmitted) ==
    {transmitted, ZeroEcho(counts, transmitted), IOError}
        \cup {Response(counts, Len(transmitted), seed, bad) :
                seed \in ResponseSeeds, bad \in 0..Len(counts)}
        \cup {Response(counts, Len(transmitted) + d, seed, 0) :
                d \in {x \in {-1, 1} : Len(transmitted) + x >= 0},
                seed \in ResponseSeeds}

INA229_Responses(spi_frames) ==
    Responses([i \in 1..Len(spi_frames) |->
                  SPIFrame_transmitted_data_byte_count(spi_frames[i])],
              spi_communicate_extend(spi_frames, 1, <<>>))

\* the MCP23S17 answers its echo bytes with data like any other byte
MCP23S17_Responses(operations) ==
    Responses(<<>>, operate_extend(operations, 1, <<>>))

\* values of CONFIG a device answers a read with
ConfigData == {0, 16, 16400, 32767, 32768, 65520}

\* what transfer may answer to the read of CONFIG: any answer to a read
\* frame, or a zero echo byte and a value of CONFIG
ResetReadResponses ==
    INA229_Responses(<<SPIReadFrame("CONFIG")>>)
    \cup {<<0, v \div 256, v % 256>> : v \in ConfigData}

\* what transfer may answer to the write that follows the read answered by
\* rx; nothing when the read raised and no write follows
ResetWriteResponses(rx) ==
    LET r == read("CONFIG", rx)
    IN  IF ~r.returned THEN {<<>>}
        ELSE INA229_Responses(
                 <<SPIWriteFrame("CONFIG",
                                 BitOr(int(r.value), Shl(1, 15)))>>)

\* the byte sequences of a first PEC computation: every single byte, and
\* the sequences over PecBytes up to MaxPecLen bytes
PecBytes == {0, 129, 255}

\* the six register bytes a device answers with
LtcData == {<<16, 39, 0, 0, 255, 255>>, <<1, 2, 3, 4, 5, 6>>}

\* a byte sequence followed by its own PEC, as a receiver checks it
PecAppended ==
    {d \o get_packet_error_code_bytes(d) :
         d \in SeqsUpTo(PecBytes, MaxPecLen) \cup LtcData}

FirstPecInputs ==
    {<<b>> : b \in 0..255} \cup SeqsUpTo(PecBytes, MaxPecLen)
    \cup PecAppended

\* the byte sequences of a PEC computation that follows other calls
LaterPecInputs == {<<>>, <<1>>, <<129, 4>>, <<255, 255, 255, 255, 255, 255>>}

\* address = None (the default) or a device address
LtcAddresses == {0, 10}

\* a response of a device: the bytes clocked in during the command, the
\* register bytes, and the PEC the device sends with them
DeviceResponse(data_bytes, pec_bytes) ==
    Repeat(0, 4) \o data_bytes \o pec_bytes

\* a PEC field that differs by one bit from the one that was sent
Corrupted(pec_bytes) == <<pec_bytes[1], (pec_bytes[2] + 2) % 256>>

\* what transfer may answer to a register-group read: the bytes themselves,
\* a response of a device with the PEC of its data, the same with a
\* corrupted PEC, a response that is too short, or it raises IOError
LTC6810_Responses(transmitted) ==
    {transmitted, IOError, <<1, 2, 3, 4, 5>>}
    \cup {DeviceResponse(d, get_packet_error_code_bytes(d)) : d \in LtcData}
    \cup {DeviceResponse(d, Corrupted(get_packet_error_code_bytes(d))) :
              d \in LtcData}

\* the data of a write frame: 16-bit values, and the first value above them
FrameData == {0, 4660, 65535, 65536}

FrameHardwareAddresses == {0, 7, 8}

FrameRegisterAddresses == {0, 10}

FrameDataBytes == {0, 165, 255}

\* 4-bit device addresses and 11-bit commands of the LTC6810
BuilderAddresses == {0, 1, 10, 15}

BuilderCommands == {1, 4, 6, 864, 2047}

BuilderData == {<<>>, <<1, 2, 3, 4, 5, 6>>}

BuilderCounts == {0, 6}

BnoRegisters ==
    {"CHIP_ID", "ACC_DATA_X_LSB", "QUA_DATA_W_LSB", "QUA_DATA_W_MSB",
     "UNIT_SEL", "OPR_MODE"}

BnoLengths == {1, 2, 8}

BnoData == {0, 12, 255}

\* what the transport answers to a read message of length bytes: as many
\* bytes, or it raises IOError
BNO055_ReadResponses(length) ==
    {IOError} \cup {[p \in 1..length |-> (seed + 37 * p) % 256] :
                       seed \in ResponseSeeds}

\* a write message is answered with nothing, or the transport raises IOError
BNO055_WriteResponses == {<<>>, IOError}


\* the ADC modes of a first conversion, the mode of those that follow it,
\* and channel 0 (all cells), one cell and the last cell
AdcModes == DOMAIN ADCMode

LaterAdcModes == {"M7000"}

AdcChannels == {0, 1, 6}

\* BNO055 handles of one program
BnoHandles == {1, 2}

\* what the transport answers to n reads of one byte: a byte each, or an
\* IOError at one of the reads at the positions fails
BnoAnswers(n, fails) ==
    {[p \in 1..n |-> <<(seed + 37 * p) % 256>>] : seed \in ResponseSeeds}
    \cup {[p \in 1..n |-> IF p = f THEN IOError ELSE <<(1 + 37 * p) % 256>>] :
             f \in fails}

\* unit selectors: the two documented values and one that is neither
UnitSelectors == {0, 1, 2}

\* a write message of the TMAH5273 is answered with nothing, or the transport
\* raises IOError
TMAG5273_WriteResponses == {<<>>, IOError}

\* the members of the enumerations of DEVICE_CONFIG_1
EnumValues(enum) == {enum[m] : m \in DOMAIN enum}

(***************************************************************************)
(* The state machine.                                                      *)
(***************************************************************************)
NoCall ==
    [chip |-> "", op |-> "", args |-> <<>>, transfers |-> <<>>,
     rx |-> <<>>, raised |-> "", returned |-> FALSE, value |-> NoValue]

NoCtor ==
    [chip |-> "", spi |-> <<>>, raised |-> "", warnings |-> <<>>,
     device |-> <<>>]

NoFrame ==
    [chip |-> "", kind |-> "", fields |-> <<>>, raised |-> "", header |-> 0,
     data_byte_count |-> 0, transmitted_data_bytes |-> <<>>,
     transmitted_data_byte_count |-> 0]

Init ==
    /\ call = NoCall
    /\ call_count = 0
    /\ transfer_count = 0
    /\ ctor = NoCtor
    /\ PEC = PEC_seed
    /\ frame = NoFrame
    /\ events = <<>>
    /\ Data_Return = Data_Return_class
    /\ held = NoHeld
    /\ tmag = TMAG5273_class

\* one call on a device handle: r is its outcome
Called(chip, op, args, rx, r) ==
    /\ call' = [chip |-> chip, op |-> op, args |-> args,
                transfers |-> r.transfers, rx |-> rx, raised |-> r.raised,
                returned |-> r.returned, value |-> r.value]
    /\ call_count' = call_count + 1
    /\ transfer_count' = transfer_count + Len(r.transfers)
    /\ UNCHANGED <<ctor, PEC, frame, events, Data_Return, held, tmag>>

\* a batch is submitted on a fresh handle: spi_communicate and operate keep
\* nothing from one call to the next
INA229_spi_communicate ==
    /\ call_count = 0
    /\ \E spi_frames \in SeqsUpTo(BatchFrames, MaxFrames) :
        \E rx \in INA229_Responses(spi_frames) :
            Called("INA229", "spi_communicate", spi_frames, rx,
                   spi_communicate(spi_frames, rx))

INA229_read ==
    /\ call_count < MaxCalls
    /\ \E register \in Registers :
        \E rx \in INA229_Responses(<<SPIReadFrame(register)>>) :
            Called("INA229", "read", <<register>>, rx, read(register, rx))

INA229_write ==
    /\ call_count < MaxCalls
    /\ \E register \in Registers, data \in WriteData :
        \E rx \in INA229_Responses(<<SPIWriteFrame(register, data)>>) :
            Called("INA229", "write", <<register, data>>, rx,
                   write(register, data, rx))

MCP23S17_operate ==
    /\ call_count = 0
    /\ \E operations \in SeqsUpTo(BatchOperations, MaxFrames) :
        \E rx \in MCP23S17_Responses(operations) :
            Called("MCP23S17", "operate", operations, rx,
                   operate(operations, rx))

\* the dataclass constructor: the fields are set, __post_init__ runs, and
\* the object is returned unless __post_init__ raised
Constructed(chip, spi, r) ==
    [chip |-> chip, spi |-> spi, raised |-> r.raised,
     warnings |-> r.warnings,
     device |-> IF r.raised = "" THEN <<[chip |-> chip, spi |-> spi]>>
                ELSE <<>>]

INA229_init ==
    /\ \E spi \in SpiConfigs :
           ctor' = Constructed("INA229", spi, INA229_post_init(spi))
    /\ UNCHANGED <<call, call_count, transfer_count, PEC, frame, events,
                 Data_Return, held, tmag>>

MCP23S17_init ==
    /\ \E spi \in SpiConfigs :
           ctor' = Constructed("MCP23S17", spi, MCP23S17_post_init(spi))
    /\ UNCHANGED <<call, call_count, transfer_count, PEC, frame, events,
                 Data_Return, held, tmag>>

LTC6810_init ==
    /\ \E spi \in SpiConfigs :
           ctor' = Constructed("LTC6810", spi, LTC6810_post_init(spi))
    /\ UNCHANGED <<call, call_count, transfer_count, PEC, frame, events,
                 Data_Return, held, tmag>>

\* a call on an LTC6810 handle; P is the register the last PEC computation
\* of the call left
CalledLTC(op, args, rx, r, P) ==
    /\ call' = [chip |-> "LTC6810", op |-> op, args |-> args, rx |-> rx,
                transfers |-> r.transfers, raised |-> r.raised,
                returned |-> r.returned, value |-> r.value]
    /\ call_count' = call_count + 1
    /\ transfer_count' = transfer_count + Len(r.transfers)
    /\ PEC' = P
    /\ UNCHANGED <<ctor, frame, events, Data_Return, held, tmag>>

LTC6810_get_packet_error_code_bytes ==
    /\ call_count < MaxLtcCalls
    /\ \E data_bytes \in (IF call_count = 0 THEN FirstPecInputs
                          ELSE LaterPecInputs) :
        CalledLTC("get_packet_error_code_bytes", data_bytes, <<>>,
                  Return(<<>>, get_packet_error_code_bytes(data_bytes)),
                  get_packet_error_code_register(data_bytes))

\* a register-group read: without an address nothing is built or
\* transferred; with one the command is built (its last PEC is the one of
\* the six filler bytes) and transferred
LTC6810_read_cell_voltage_register_group_a ==
    /\ call_count < MaxLtcCalls
    /\ \E address \in {None} \cup {<<a>> : a \in LtcAddresses} :
        \E rx \in (IF address = None THEN {<<>>}
                   ELSE LTC6810_Responses(get_address_read_command_bytes(
                                              address[1], 4, 6))) :
            CalledLTC("read_cell_voltage_register_group_a", address, rx,
                      read_cell_voltage_register_group_a(address, rx),
                      IF address = None THEN PEC
                      ELSE get_packet_error_code_register(Repeat(255, 6)))

LTC6810_read_cell_voltage_register_group_b ==
    /\ call_count < MaxLtcCalls
    /\ \E address \in {None} \cup {<<a>> : a \in LtcAddresses} :
        \E rx \in (IF address = None THEN {<<>>}
                   ELSE LTC6810_Responses(get_address_read_command_bytes(
                                              address[1], 6, 6))) :
            CalledLTC("read_cell_voltage_register_group_b", address, rx,
                      read_cell_voltage_register_group_b(address, rx),
                      IF address = None THEN PEC
                      ELSE get_packet_error_code_register(Repeat(255, 6)))

BNO055_read ==
    /\ call_count < MaxCalls
    /\ \E register \in BnoRegisters, length \in BnoLengths :
        \E rx \in BNO055_ReadResponses(length) :
            Called("BNO055", "read", <<register, length>>, rx,
                   bno055_read(register, length, rx))

BNO055_write ==
    /\ call_count < MaxCalls
    /\ \E register \in BnoRegisters, data \in BnoData :
        \E rx \in BNO055_WriteResponses :
            Called("BNO055", "write", <<register, data>>, rx,
                   bno055_write(register, data, rx))

\* a frame or a command is built; header is the number of control and
\* address bytes before its data bytes
Built(chip, kind, fields, raised, header, count, bytes, byte_count) ==
    [chip |-> chip, kind |-> kind, fields |-> fields, raised |-> raised,
     header |-> header, data_byte_count |-> count,
     transmitted_data_bytes |-> bytes,
     transmitted_data_byte_count |-> byte_count]

INA229_SPIFrame(f) ==
    Built("INA229", f.READ_OR_WRITE_TYPE, <<f.register, f.data>>, "", 1,
          SPIFrame_data_byte_count(f), SPIFrame_transmitted_data_bytes(f),
          SPIFrame_transmitted_data_byte_count(f))

INA229_SPIReadFrame ==
    /\ frame = NoFrame
    /\ \E register \in Registers :
           frame' = INA229_SPIFrame(SPIReadFrame(register))
    /\ UNCHANGED <<call, call_count, transfer_count, ctor, PEC, events,
                 Data_Return, held, tmag>>

INA229_SPIWriteFrame ==
    /\ frame = NoFrame
    /\ \E register \in Registers, data \in FrameData :
           frame' = IF SPIWriteFrame_post_init(register)
                    THEN INA229_SPIFrame(SPIWriteFrame(register, data))
                    ELSE Built("INA229", "W", <<register, data>>,
                               "AssertionError", 0, 0, <<>>, 0)
    /\ UNCHANGED <<call, call_count, transfer_count, ctor, PEC, events,
                 Data_Return, held, tmag>>

MCP23S17_Operation(kind, op) ==
    Built("MCP23S17", kind,
          <<op.hardware_address, op.register_address, op.data_byte_count,
            op.data_bytes>>, "", 2,
          Operation_data_byte_count(op), Operation_transmitted_data_bytes(op),
          Operation_transmitted_data_byte_count(op))

MCP23S17_Read ==
    /\ frame = NoFrame
    /\ \E h \in FrameHardwareAddresses, a \in FrameRegisterAddresses,
          n \in 0..MaxDataBytes :
           frame' = MCP23S17_Operation("Read", Read(h, a, n))
    /\ UNCHANGED <<call, call_count, transfer_count, ctor, PEC, events,
                 Data_Return, held, tmag>>

MCP23S17_Write ==
    /\ frame = NoFrame
    /\ \E h \in FrameHardwareAddresses, a \in FrameRegisterAddresses,
          d \in SeqsUpTo(FrameDataBytes, MaxDataBytes) :
           frame' = MCP23S17_Operation("Write", Write(h, a, d))
    /\ UNCHANGED <<call, call_count, transfer_count, ctor, PEC, events,
                 Data_Return, held, tmag>>

\* a command of the LTC6810 is built; the register is left by the last PEC
\* computation of the builder
LTC6810_Command(kind, fields, bytes, last_pec_input) ==
    /\ frame' = Built("LTC6810", kind, fields, "", 2, Len(bytes) - 2, bytes,
                      Len(bytes))
    /\ PEC' = get_packet_error_code_register(last_pec_input)
    /\ UNCHANGED <<call, call_count, transfer_count, ctor, events,
                 Data_Return, held, tmag>>

LTC6810_get_address_write_command_bytes ==
    /\ frame = NoFrame
    /\ \E address \in BuilderAddresses, command \in BuilderCommands,
       data_bytes \in BuilderData :
        LTC6810_Command("get_address_write_command_bytes",
                        <<address, command, data_bytes>>,
                        get_address_write_command_bytes(address, command,
                                                        data_bytes),
                        data_bytes)

LTC6810_get_address_read_command_bytes ==
    /\ frame = NoFrame
    /\ \E address \in BuilderAddresses, command \in BuilderCommands,
       data_byte_count \in BuilderCounts :
        LTC6810_Command("get_address_read_command_bytes",
                        <<address, command, data_byte_count>>,
                        get_address_read_command_bytes(address, command,
                                                       data_byte_count),
                        Repeat(255, data_byte_count))

LTC6810_get_address_poll_command_bytes ==
    /\ frame = NoFrame
    /\ \E address \in BuilderAddresses, command \in BuilderCommands,
       poll_data_byte_count \in BuilderCounts :
        LTC6810_Command("get_address_poll_command_bytes",
                        <<address, command, poll_data_byte_count>>,
                        get_address_poll_command_bytes(address, command,
                                                       poll_data_byte_count),
                        get_address_command_bytes(address, command))

\* the first call on a fresh handle
First_INA229_spi_communicate == call_count = 0 /\ INA229_spi_communicate

First_INA229_read == call_count = 0 /\ INA229_read

First_INA229_write == call_count = 0 /\ INA229_write

First_BNO055_read == call_count = 0 /\ BNO055_read

First_BNO055_write == call_count = 0 /\ BNO055_write

\* a data read on a BNO055 handle: the reads it issued are logged, the class
\* attributes are as it leaves them, and the caller keeps the first result
\* that is returned to it
DataCalled(handle, op, rx, r) ==
    /\ call' = [chip |-> "BNO055", op |-> op, args |-> <<handle>>,
                transfers |-> r.transfers, rx |-> rx, raised |-> r.raised,
                returned |-> r.returned, value |-> r.value]
    /\ call_count' = call_count + 1
    /\ transfer_count' = transfer_count + Len(r.transfers)
    /\ events' = r.reads
    /\ Data_Return' = r.Data_Return
    /\ held' = IF held.result = "" /\ r.returned
               THEN [handle |-> handle, op |-> op, result |-> r.value,
                     seen |-> attributes(r.Data_Return, r.value)]
               ELSE held
    /\ UNCHANGED <<ctor, PEC, frame, tmag>>

BNO055_read_quaternion ==
    /\ call_count < MaxDataCalls
    /\ \E handle \in BnoHandles, rx \in BnoAnswers(6, {1, 6}) :
           DataCalled(handle, "read_quaternion", rx,
                      read_quaternion(Data_Return, rx))

BNO055_read_acceleration ==
    /\ call_count < MaxDataCalls
    /\ \E handle \in BnoHandles, rx \in BnoAnswers(6, {1, 6}) :
           DataCalled(handle, "read_acceleration", rx,
                      read_acceleration(Data_Return, rx))

BNO055_read_gyro ==
    /\ call_count < MaxDataCalls
    /\ \E handle \in BnoHandles, rx \in BnoAnswers(6, {1, 6}) :
           DataCalled(handle, "read_gyro", rx, read_gyro(Data_Return, rx))

BNO055_read_all_data ==
    /\ call_count < MaxDataCalls
    /\ \E handle \in BnoHandles, rx \in BnoAnswers(19, {1, 7, 13, 19}) :
           DataCalled(handle, "read_all_data", rx,
                      read_all_data(Data_Return, rx))

BNO055_set_units ==
    /\ call_count < MaxUnitCalls
    /\ \E accel_unit \in UnitSelectors, ang_rate \in UnitSelectors,
          euler_ang \in UnitSelectors, temp \in UnitSelectors :
        \E rx \in BNO055_WriteResponses :
            Called("BNO055", "set_units",
                   <<accel_unit, ang_rate, euler_ang, temp>>, rx,
                   set_units(accel_unit, ang_rate, euler_ang, temp, rx))

\* an assignment to a property of the TMAH5273
Assigned(property, value, rx, r) ==
    /\ call' = [chip |-> "TMAG5273", op |-> property, args |-> <<value>>,
                transfers |-> r.transfers, rx |-> rx, raised |-> r.raised,
                returned |-> r.returned, value |-> r.value]
    /\ call_count' = call_count + 1
    /\ transfer_count' = transfer_count + Len(r.transfers)
    /\ tmag' = r.self
    /\ UNCHANGED <<ctor, PEC, frame, events, Data_Return, held>>

TMAG5273_crc_enable ==
    /\ call_count < MaxAssignments
    /\ \E value \in EnumValues(Enable), rx \in TMAG5273_WriteResponses :
           Assigned("crc_enable", value, rx,
                    crc_enable_setter(tmag, value, rx))

TMAG5273_magnet_temperature_coeff ==
    /\ call_count < MaxAssignments
    /\ \E value \in EnumValues(MagnetTemperatureCoeff),
          rx \in TMAG5273_WriteResponses :
           Assigned("magnet_temperature_coeff", value, rx,
                    magnet_temperature_coeff_setter(tmag, value, rx))

TMAG5273_conversion_avg ==
    /\ call_count < MaxAssignments
    /\ \E value \in EnumValues(ConversionAvg), rx \in TMAG5273_WriteResponses :
           Assigned("conversion_avg", value, rx,
                    conversion_avg_setter(tmag, value, rx))

TMAG5273_i2c_read_mode ==
    /\ call_count < MaxAssignments
    /\ \E value \in EnumValues(I2CReadMode), rx \in TMAG5273_WriteResponses :
           Assigned("i2c_read_mode", value, rx,
                    i2c_read_mode_setter(tmag, value, rx))

\* the name of the method in the record of a call
ConversionOp == "start_cell_voltage_adc_conversion_and_poll_status"

\* a conversion is started: the builder of the poll command leaves the
\* register of its PEC computation, and the transfer and the wait of the call
\* are logged
LTC6810_start_cell_voltage_adc_conversion_and_poll_status ==
    /\ call_count < MaxLtcCalls
    /\ \E adc_mode \in (IF call_count = 0 THEN AdcModes ELSE LaterAdcModes),
          channel \in AdcChannels, sleep \in BOOLEAN,
          address \in {None} \cup {<<a>> : a \in LtcAddresses} :
        \E rx \in (IF address = None THEN {<<>>}
                   ELSE {<<0, 0, 0, 0>>, IOError}) :
            LET r == start_cell_voltage_adc_conversion_and_poll_status(
                         adc_mode, channel, address, sleep, rx)
            IN  /\ call' = [chip |-> "LTC6810",
                            op |-> ConversionOp,
                            args |-> <<adc_mode, channel, address, sleep>>,
                            rx |-> rx, transfers |-> r.transfers,
                            raised |-> r.raised, returned |-> r.returned,
                            value |-> r.value]
                /\ call_count' = call_count + 1
                /\ transfer_count' = transfer_count + Len(r.transfers)
                /\ events' = r.events
                /\ PEC' = IF address = None THEN PEC
                          ELSE get_packet_error_code_register(
                                   SubSeq(r.transfers[1], 1, 2))
                /\ UNCHANGED <<ctor, frame, Data_Return, held, tmag>>

\* a reset of the INA229; rx holds the answers to its two transfers
INA229_reset ==
    /\ call_count < MaxCalls
    /\ \E received_by_read \in ResetReadResponses :
        \E received_by_write \in ResetWriteResponses(received_by_read) :
            Called("INA229", "reset", <<>>,
                   <<received_by_read, received_by_write>>,
                   reset(received_by_read, received_by_write))

\* sequences of read and write calls on one INA229 handle
Next ==
    \/ INA229_read
    \/ INA229_write

Spec == Init /\ [][Next]_vars

\* one batch handed to spi_communicate or to operate
NextBatch ==
    \/ INA229_spi_communicate
    \/ MCP23S17_operate

SpecBatch == Init /\ [][NextBatch]_vars

\* constructions
NextCtor ==
    \/ INA229_init
    \/ MCP23S17_init
    \/ LTC6810_init

SpecCtor == Init /\ [][NextCtor]_vars

\* sequences of read and write calls on one BNO055 handle
NextBNO ==
    \/ BNO055_read
    \/ BNO055_write

SpecBNO == Init /\ [][NextBNO]_vars

\* one call on a fresh INA229 or BNO055 handle, whose transport may raise
NextFault ==
    \/ First_INA229_spi_communicate
    \/ First_INA229_read
    \/ First_INA229_write
    \/ First_BNO055_read
    \/ First_BNO055_write

SpecFault == Init /\ [][NextFault]_vars

\* one frame, operation or command is built for the bus
NextFrame ==
    \/ INA229_SPIReadFrame
    \/ INA229_SPIWriteFrame
    \/ MCP23S17_Read
    \/ MCP23S17_Write
    \/ LTC6810_get_address_write_command_bytes
    \/ LTC6810_get_address_read_command_bytes
    \/ LTC6810_get_address_poll_command_bytes

SpecFrame == Init /\ [][NextFrame]_vars

\* sequences of PEC computations and register-group reads on one LTC6810
NextLTC ==
    \/ LTC6810_get_packet_error_code_bytes
    \/ LTC6810_read_cell_voltage_register_group_a
    \/ LTC6810_read_cell_voltage_register_group_b

SpecLTC == Init /\ [][NextLTC]_vars

\* sequences of data reads on the BNO055 handles of one program
NextData ==
    \/ BNO055_read_quaternion
    \/ BNO055_read_acceleration
    \/ BNO055_read_gyro
    \/ BNO055_read_all_data

SpecData == Init /\ [][NextData]_vars

\* calls of set_units on one BNO055 handle
NextUnits == BNO055_set_units

SpecUnits == Init /\ [][NextUnits]_vars

\* sequences of assignments to the DEVICE_CONFIG_1 properties of one TMAH5273
NextTMAG ==
    \/ TMAG5273_crc_enable
    \/ TMAG5273_magnet_temperature_coeff
    \/ TMAG5273_conversion_avg
    \/ TMAG5273_i2c_read_mode

SpecTMAG == Init /\ [][NextTMAG]_vars

\* conversions started on one LTC6810
NextADC == LTC6810_start_cell_voltage_adc_conversion_and_poll_status

SpecADC == Init /\ [][NextADC]_vars

\* resets of one INA229
NextReset == INA229_reset

SpecReset == Init /\ [][NextReset]_vars

(***************************************************************************)
(* Properties.                                                             *)
(***************************************************************************)
\* the register and the data of the last write, the register of the last read
WrittenRegister == call.args[1]

WrittenData == call.args[2]

\* the transport answered every transfer of the last call with exactly the
\* bytes it was given
Loopback == \A i \in 1..Len(call.transfers) : call.rx = call.transfers[i]

\* C1, as stated: INA229.write(R, V) over a loopback transport returns V,
\* for every register R and every value V
C1_WriteLoopbackReturnsWritten ==
    (call.op = "write" /\ Loopback)
        => (call.returned /\ call.value = Big(WrittenData))

\* C1, amended: INA229.write(R, V) of a 16-bit register R returns V when the
\* transport answers the frame's two data bytes behind a zero echo byte; over
\* a loopback that is so exactly for CONFIG, whose control byte is zero, and
\* the write of any other 16-bit register raises AssertionError on the echoed
\* non-zero control byte; the write of a register that is not 16 bits wide
\* raises AssertionError before any transfer
C1_WriteRoundTrip ==
    call.op = "write" =>
        /\ Register[WrittenRegister].size # 16
               => (/\ ~call.returned
                   /\ call.raised = "AssertionError"
                   /\ call.transfers = <<>>)
        /\ (Register[WrittenRegister].size = 16 /\ Len(call.rx) = 3
                /\ call.rx[1] = 0
                /\ call.rx[2] = WrittenData \div 256
                /\ call.rx[3] = WrittenData % 256)
               => (call.returned /\ call.value = Big(WrittenData))
        /\ (Register[WrittenRegister].size = 16 /\ Loopback)
               => IF Register[WrittenRegister].address = 0
                  THEN call.returned /\ call.value = Big(WrittenData)
                  ELSE ~call.returned /\ call.raised = "AssertionError"

C1_Witness ==
    /\ call.op = "write"
    /\ WrittenRegister = "CONFIG"
    /\ WrittenData = 4660
    /\ Loopback
    /\ call.returned
    /\ call.value = Big(4660)

\* the bytes and the byte count one frame or operation of the last batch
\* contributes
BatchBytes(i) ==
    IF call.chip = "INA229"
    THEN SPIFrame_transmitted_data_bytes(call.args[i])
    ELSE Operation_transmitted_data_bytes(call.args[i])

BatchCount(i) ==
    IF call.chip = "INA229"
    THEN SPIFrame_transmitted_data_byte_count(call.args[i])
    ELSE Operation_transmitted_data_byte_count(call.args[i])

\* the number of bytes of the frames before frame i
RECURSIVE BatchOffset(_)
BatchOffset(i) == IF i = 1 THEN 0 ELSE BatchOffset(i - 1) + BatchCount(i - 1)

IsBatch == call.op \in {"spi_communicate", "operate"}

\* C2: a batch handed to INA229.spi_communicate or MCP23S17.operate makes
\* exactly one transfer; its input holds the bytes of every frame, in frame
\* order, each at the offset of the frames before it, and nothing else: its
\* length is the sum of the frames' transmitted_data_byte_count
C2_OneTransferOfConcatenation ==
    IsBatch =>
        /\ Len(call.transfers) = 1
        /\ transfer_count = 1
        /\ Len(call.transfers[1]) = BatchOffset(Len(call.args) + 1)
        /\ \A i \in 1..Len(call.args) :
               SubSeq(call.transfers[1], BatchOffset(i) + 1,
                      BatchOffset(i) + BatchCount(i)) = BatchBytes(i)

C2_Witness ==
    /\ call.op = "spi_communicate"
    /\ Len(call.args) >= 2
    /\ call.args[1].READ_OR_WRITE_TYPE = "W"
    /\ call.args[2] = SPIReadFrame("ENERGY")
    /\ Len(call.transfers) = 1
    /\ Len(call.transfers[1]) >= 9

\* C3: when the response of the transport to INA229.spi_communicate is
\* shorter or longer than the transmitted buffer, the call raises and
\* returns nothing
C3_LengthMismatchFails ==
    (call.op = "spi_communicate" /\ Len(call.transfers) = 1
        /\ call.rx # IOError
        /\ Len(call.rx) # Len(call.transfers[1]))
        => (/\ call.raised = "AssertionError"
            /\ ~call.returned
            /\ call.value = NoValue)

\* a response one byte longer in which every frame has its whole slice
C3_Witness ==
    /\ call.op = "spi_communicate"
    /\ Len(call.args) >= 2
    /\ Len(call.rx) = Len(call.transfers[1]) + 1
    /\ \A i \in 1..Len(call.args) : call.rx[BatchOffset(i) + 1] = 0
    /\ call.raised = "AssertionError"
    /\ ~call.returned

\* C4: when the response of the transport to MCP23S17.operate is shorter or
\* longer than the transmitted buffer, the call fails and returns nothing
C4_OperateLengthMismatchFails ==
    (call.op = "operate" /\ Len(call.transfers) = 1
        /\ call.rx # IOError
        /\ Len(call.rx) # Len(call.transfers[1]))
        => (call.raised # "" /\ ~call.returned)

\* C5: when the echo byte of the slice of any frame of a batch is not zero,
\* INA229.spi_communicate raises and returns no value of any frame
C5_AllOrNothing ==
    (call.op = "spi_communicate" /\ Len(call.transfers) = 1
        /\ Len(call.rx) = Len(call.transfers[1])
        /\ \E i \in 1..Len(call.args) : call.rx[BatchOffset(i) + 1] # 0)
        => (/\ call.raised = "AssertionError"
            /\ ~call.returned
            /\ call.value = NoValue)

\* the last frame of the batch has the bad echo byte, the frames before it
\* parse
C5_Witness ==
    /\ call.op = "spi_communicate"
    /\ Len(call.args) >= 2
    /\ Len(call.rx) = Len(call.transfers[1])
    /\ call.rx[BatchOffset(Len(call.args)) + 1] # 0
    /\ \A i \in 1..(Len(call.args) - 1) : call.rx[BatchOffset(i) + 1] = 0
    /\ ~call.returned

\* the bus configurations each chip supports
SupportedConfiguration(chip, spi) ==
    /\ IF chip = "LTC6810" THEN spi.mode = 3 ELSE spi.mode \in {0, 3}
    /\ IF chip = "LTC6810"
       THEN 3000000 <= spi.max_speed /\ spi.max_speed <= 3500000
       ELSE spi.max_speed <= 10000000
    /\ spi.bit_order = "msb"
    /\ spi.bits_per_word = 8

\* C6: the construction of an INA229, an MCP23S17 or an LTC6810 returns a
\* device if and only if mode, max_speed, bit_order and bits_per_word are
\* supported by the chip; in every other case it raises and returns no device
C6_DeviceIffSupported ==
    ctor.chip # "" =>
        IF SupportedConfiguration(ctor.chip, ctor.spi)
        THEN /\ ctor.raised = ""
             /\ ctor.device = <<[chip |-> ctor.chip, spi |-> ctor.spi]>>
        ELSE ctor.raised # "" /\ ctor.device = <<>>

C6_Witness ==
    /\ ctor.chip = "INA229"
    /\ ctor.spi.mode = 1
    /\ ctor.spi.max_speed = 10000000
    /\ ctor.spi.bit_order = "msb"
    /\ ctor.spi.bits_per_word = 8
    /\ ctor.raised # ""
    /\ ctor.device = <<>>

ModeSupported(chip, spi) ==
    IF chip = "LTC6810" THEN spi.mode = 3 ELSE spi.mode \in {0, 3}

SpeedSupported(chip, spi) ==
    IF chip = "LTC6810"
    THEN 3000000 <= spi.max_speed /\ spi.max_speed <= 3500000
    ELSE spi.max_speed <= 10000000

\* C7: the error of a construction names the first violated check in the
\* order mode, clock rate, bit order, word size
C7_FirstViolatedCheck ==
    ctor.chip # "" =>
        /\ ~ModeSupported(ctor.chip, ctor.spi)
               => ctor.raised = "unsupported spi mode"
        /\ (ModeSupported(ctor.chip, ctor.spi)
                /\ ~SpeedSupported(ctor.chip, ctor.spi))
               => ctor.raised = "unsupported spi maximum speed"
        /\ (ModeSupported(ctor.chip, ctor.spi)
                /\ SpeedSupported(ctor.chip, ctor.spi)
                /\ ctor.spi.bit_order # "msb")
               => ctor.raised = "unsupported spi bit order"
        /\ (ModeSupported(ctor.chip, ctor.spi)
                /\ SpeedSupported(ctor.chip, ctor.spi)
                /\ ctor.spi.bit_order = "msb"
                /\ ctor.spi.bits_per_word # 8)
               => ctor.raised = "unsupported spi number of bits per word"

\* every check is violated at once
C7_Witness ==
    /\ ctor.chip = "MCP23S17"
    /\ ctor.spi.mode = 1
    /\ ctor.spi.max_speed = 10000001
    /\ ctor.spi.bit_order = "lsb"
    /\ ctor.spi.bits_per_word = 7
    /\ ctor.raised = "unsupported spi mode"

\* C8: extra flags never make a construction fail: a supported configuration
\* with non-zero extra_flags yields a device and exactly one warning, one
\* with zero extra_flags yields a device and no warning, and a construction
\* that raises emits no warning
C8_ExtraFlagsOnlyWarn ==
    ctor.chip # "" =>
        /\ SupportedConfiguration(ctor.chip, ctor.spi)
               => (/\ ctor.raised = ""
                   /\ ctor.device # <<>>
                   /\ Len(ctor.warnings)
                          = IF ctor.spi.extra_flags # 0 THEN 1 ELSE 0)
        /\ ctor.raised # "" => ctor.warnings = <<>>

C8_Witness ==
    /\ ctor.chip = "LTC6810"
    /\ ctor.spi.extra_flags = 128
    /\ ctor.device # <<>>
    /\ Len(ctor.warnings) = 1

\* byte i of the k bytes after the echo byte of the response, weighted by
\* its place in a big-endian number: the places below 2^24 make the low limb
RECURSIVE LowLimb(_, _, _)
LowLimb(rx, k, i) ==
    IF i > k THEN 0
    ELSE (IF k - i < 3 THEN rx[1 + i] * Pow2(8 * (k - i)) ELSE 0)
         + LowLimb(rx, k, i + 1)

RECURSIVE HighLimb(_, _, _)
HighLimb(rx, k, i) ==
    IF i > k THEN 0
    ELSE (IF k - i >= 3 THEN rx[1 + i] * Pow2(8 * (k - i - 3)) ELSE 0)
         + HighLimb(rx, k, i + 1)

ReadWidth == Register[call.args[1]].size \div 8

\* C9: INA229.read of a register of 8k bits, answered by k + 1 bytes of which
\* the first is zero, returns the big-endian number of the k bytes after the
\* first: the sum of byte i times 256^(k - i)
C9_ReadBigEndian ==
    (call.op = "read" /\ Len(call.rx) = ReadWidth + 1 /\ call.rx[1] = 0)
        => (/\ ReadWidth \in {2, 3, 5}
            /\ call.returned
            /\ call.value = [hi |-> HighLimb(call.rx, ReadWidth, 1),
                             lo |-> LowLimb(call.rx, ReadWidth, 1)])

\* a 40-bit register whose five bytes differ
C9_Witness ==
    /\ call.op = "read"
    /\ call.args[1] = "ENERGY"
    /\ call.returned
    /\ call.rx[1] = 0
    /\ \A i, j \in 2..6 : i # j => call.rx[i] # call.rx[j]
    /\ call.value.hi = call.rx[2] * 256 + call.rx[3]
    /\ call.value.lo = call.rx[4] * 65536 + call.rx[5] * 256 + call.rx[6]

\* C10, as stated: after m calls to INA229.read and INA229.write the
\* transport's transfer has been invoked exactly m times
C10_OneTransferPerCall == transfer_count = call_count

\* the frame the last call built
CalledFrame(c) ==
    IF c.op = "read" THEN SPIReadFrame(c.args[1])
    ELSE SPIWriteFrame(c.args[1], c.args[2])

BuildsFrame(c) == c.op = "read" \/ Register[c.args[1]].size = 16

\* C10, amended: every INA229.read and every INA229.write of a 16-bit
\* register invokes transfer exactly once, within the call and with the bytes
\* of its own frame, whatever the transport answers; an INA229.write of a
\* register that is not 16 bits wide raises before any transfer and invokes
\* none
C10_OneTransferPerFrame ==
    [][call_count' = call_count + 1 =>
          IF BuildsFrame(call')
          THEN /\ transfer_count' = transfer_count + 1
               /\ call'.transfers
                      = <<SPIFrame_transmitted_data_bytes(CalledFrame(call'))>>
          ELSE /\ transfer_count' = transfer_count
               /\ call'.transfers = <<>>
               /\ call'.raised = "AssertionError"]_vars

\* a second or later call, which failed after its one transfer
C10_Witness ==
    /\ call_count >= 2
    /\ transfer_count = call_count
    /\ call.op = "read"
    /\ ~call.returned
    /\ Len(call.transfers) = 1

(***************************************************************************)
(* The packet error code of the LTC6810.                                   *)
(***************************************************************************)
RECURSIVE BitXor(_, _)
BitXor(a, b) ==
    IF a = 0 THEN b
    ELSE IF b = 0 THEN a
    ELSE (IF a % 2 # b % 2 THEN 1 ELSE 0) + 2 * BitXor(a \div 2, b \div 2)

\* x^15 + x^14 + x^10 + x^8 + x^7 + x^4 + x^3 + 1 without its leading term
CRC15_Polynomial ==
    Pow2(14) + Pow2(10) + Pow2(8) + Pow2(7) + Pow2(4) + Pow2(3) + 1

\* one step of a 15-bit MSB-first CRC: the remainder is shifted left and the
\* polynomial is subtracted when the bit shifted out differs from the input
CRC15_Bit(rem, bit) ==
    LET top == rem \div Pow2(14)
        shifted == (rem * 2) % Pow2(15)
    IN  IF top # bit THEN BitXor(shifted, CRC15_Polynomial) ELSE shifted

RECURSIVE CRC15_Byte(_, _, _)
CRC15_Byte(rem, byte, i) ==
    Strict(rem, IF i < 0 THEN rem
                ELSE CRC15_Byte(CRC15_Bit(rem, (byte \div Pow2(i)) % 2),
                                byte, i - 1))

RECURSIVE CRC15(_, _, _)
CRC15(rem, bytes, k) ==
    Strict(rem, IF k > Len(bytes) THEN rem
                ELSE CRC15(CRC15_Byte(rem, bytes[k], 7), bytes, k + 1))

\* the two bytes of 2 * C for the CRC C of bytes with seed 0x0010
CRC15_Bytes(bytes) ==
    LET C == CRC15(Pow2(4), bytes, 1)
    IN  <<C \div Pow2(7), (C % Pow2(7)) * 2>>

IsPec == call.chip = "LTC6810" /\ call.op = "get_packet_error_code_bytes"

\* C11: get_packet_error_code_bytes returns the two bytes (hi, lo) of 2 * C
\* for the 15-bit MSB-first CRC C with polynomial 0x4599 and seed 0x0010 of
\* its input: hi is bits 14..7 of C, lo is bits 6..0 of C shifted left by one
C11_PecIsCrc15 ==
    IsPec =>
        /\ call.returned
        /\ call.value = CRC15_Bytes(call.args)
        /\ call.value[2] % 2 = 0

\* a PEC was computed over a sequence of several bytes that are not all
\* the same
C11_Witness ==
    /\ IsPec
    /\ call.returned
    /\ Len(call.args) = 3
    /\ call.args[1] # call.args[2]
    /\ call.value = CRC15_Bytes(call.args)

IsGroupRead ==
    /\ call.chip = "LTC6810"
    /\ call.op \in {"read_cell_voltage_register_group_a",
                    "read_cell_voltage_register_group_b"}

\* the response to a register-group read is the four bytes clocked in during
\* the command, six register bytes and the two bytes of their PEC
ReceivedData == SubSeq(call.rx, 5, 10)

ReceivedPec == SubSeq(call.rx, 11, 12)

\* C13: when the PEC received in a register-group read differs from the PEC
\* of the received data bytes, the read raises instead of returning cell
\* voltages, after its one transfer
C13_PecMismatchReported ==
    (IsGroupRead /\ call.rx # IOError /\ Len(call.rx) = 12
        /\ ReceivedPec # get_packet_error_code_bytes(ReceivedData))
    => (~call.returned /\ call.raised # "" /\ Len(call.transfers) = 1)

(***************************************************************************)
(* Errors of the transport.                                                *)
(***************************************************************************)
\* the transport raised IOError during a transfer of the call
TransportRaised ==
    /\ call.chip \in {"INA229", "BNO055"}
    /\ call.rx = IOError
    /\ Len(call.transfers) >= 1

\* C14: when the transport raises IOError during the transfer of
\* INA229.spi_communicate, read or write or of BNO055.read or write, the
\* call raises IOError, returns no result and has issued that one transfer
C14_IOErrorPropagates ==
    TransportRaised =>
        /\ call.raised = "IOError"
        /\ ~call.returned
        /\ call.value = NoValue
        /\ Len(call.transfers) = 1
        /\ transfer_count = 1

\* the transport raised during a batch of several frames
C14_Witness ==
    /\ TransportRaised
    /\ call.op = "spi_communicate"
    /\ Len(call.args) >= 2
    /\ call.raised = "IOError"

(***************************************************************************)
(* BNO055.read.                                                            *)
(***************************************************************************)
IsBnoRead == call.chip = "BNO055" /\ call.op = "read"

\* some message of the transfer carries the address of register first
CarriesRegister(xfer, register) ==
    \E i \in 1..Len(xfer.messages) :
        /\ Len(xfer.messages[i].data) >= 1
        /\ xfer.messages[i].data[1] = BNO055_Register[register]

\* C20: BNO055.read(register, length) makes exactly one transfer, to the
\* device address 0x28, and a message of it carries the address of the
\* register that is read
C20_ReadCarriesRegister ==
    IsBnoRead =>
        /\ Len(call.transfers) = 1
        /\ call.transfers[1].address = 40
        /\ CarriesRegister(call.transfers[1], call.args[1])

(***************************************************************************)
(* Frames, operations and commands.                                        *)
(***************************************************************************)
IsReadFrame ==
    \/ frame.chip = "INA229" /\ frame.kind = "R"
    \/ frame.chip = "MCP23S17" /\ frame.kind = "Read"

\* the bytes of the frame after its control and address bytes
FrameFiller ==
    SubSeq(frame.transmitted_data_bytes, frame.header + 1,
           Len(frame.transmitted_data_bytes))

\* the original statement of C15: the bytes of a read frame after its
\* control and address bytes are data-byte-count bytes 0xFF
C15_FillerAllOnes ==
    IsReadFrame =>
        /\ Len(FrameFiller) = frame.data_byte_count
        /\ \A i \in 1..Len(FrameFiller) : FrameFiller[i] = 255

\* the filler byte of a read: 0xFF for the MCP23S17, 0x00 for the INA229
FillerByte == IF frame.chip = "MCP23S17" THEN 255 ELSE 0

\* C15: the bytes of a read frame after its control and address bytes are
\* exactly data-byte-count filler bytes, each 0xFF in an MCP23S17 Read and
\* each 0x00 in an INA229 SPIReadFrame
C15_FillerPerChip ==
    IsReadFrame =>
        /\ Len(FrameFiller) = frame.data_byte_count
        /\ \A i \in 1..Len(FrameFiller) : FrameFiller[i] = FillerByte

\* an INA229 read frame of a 40-bit register was built
C15_Witness ==
    /\ IsReadFrame
    /\ frame.chip = "INA229"
    /\ frame.data_byte_count = 5
    /\ Len(FrameFiller) = 5

\* C17: the number of bytes a frame of the INA229 or an operation of the
\* MCP23S17 contributes to the transmit buffer is its
\* transmitted_data_byte_count
C17_TransmittedCount ==
    (frame.chip \in {"INA229", "MCP23S17"} /\ frame.raised = "") =>
        Len(frame.transmitted_data_bytes) = frame.transmitted_data_byte_count

\* an MCP23S17 Write of two data bytes was built
C17_Witness ==
    /\ frame.chip = "MCP23S17"
    /\ frame.kind = "Write"
    /\ frame.data_byte_count = 2
    /\ Len(frame.transmitted_data_bytes) = 4

\* C18: every byte of a frame, operation or command that is built without
\* raising, and so handed to transfer, is an integer in 0..255
C18_BytesInRange ==
    (frame.chip # "" /\ frame.raised = "") =>
        \A i \in 1..Len(frame.transmitted_data_bytes) :
            frame.transmitted_data_bytes[i] \in 0..255

IsAddressedCommand ==
    /\ frame.chip = "LTC6810"
    /\ frame.kind \in {"get_address_write_command_bytes",
                       "get_address_read_command_bytes"}

\* C19: the first two bytes of a command built by
\* get_address_write_command_bytes or get_address_read_command_bytes are
\* get_address_command_bytes(address, command), and bytes 2..3 are the PEC
\* of those two bytes
C19_CommandIsAddressed ==
    IsAddressedCommand =>
        LET command_bytes ==
                get_address_command_bytes(frame.fields[1], frame.fields[2])
        IN  /\ SubSeq(frame.transmitted_data_bytes, 1, 2) = command_bytes
            /\ SubSeq(frame.transmitted_data_bytes, 3, 4)
                   = get_packet_error_code_bytes(command_bytes)

(***************************************************************************)
(* The results of a batch.                                                 *)
(***************************************************************************)
\* the bytes of the response that belong to frame i
BatchSlice(i) ==
    SubSeq(call.rx, BatchOffset(i) + 1, BatchOffset(i) + BatchCount(i))

\* C16: a batch of n frames handed to INA229.spi_communicate that returns,
\* returns n values, and the i-th is the big-endian number of the response
\* bytes of frame i after its first: the bytes at the offsets from the sum
\* of the counts of the frames before it up to that sum plus its own count
C16_ResultsInFrameOrder ==
    (call.op = "spi_communicate" /\ call.returned) =>
        /\ Len(call.value) = Len(call.args)
        /\ \A i \in 1..Len(call.args) :
               call.value[i]
                   = [hi |-> HighLimb(BatchSlice(i), BatchCount(i) - 1, 1),
                      lo |-> LowLimb(BatchSlice(i), BatchCount(i) - 1, 1)]

\* a batch of frames of different widths returned different values
C16_Witness ==
    /\ call.op = "spi_communicate"
    /\ call.returned
    /\ Len(call.args) = MaxFrames
    /\ BatchCount(1) # BatchCount(2)
    /\ call.value[1] # call.value[2]
    /\ call.value[2] # Big(0)
    /\ call.rx # call.transfers[1]


\* a read of one byte of a BNO055 register, as the log of a data read
\* records it
ReadOf(register) == [kind |-> "read", register |-> register, length |-> 1]

IsDataRead(op) == call.chip = "BNO055" /\ call.op = op

\* C21: a read_quaternion that returns has issued exactly 8 single-byte
\* register reads, in the order QUA_DATA_W_MSB, QUA_DATA_W_LSB,
\* QUA_DATA_X_MSB, QUA_DATA_X_LSB, QUA_DATA_Y_MSB, QUA_DATA_Y_LSB,
\* QUA_DATA_Z_MSB, QUA_DATA_Z_LSB
C21_EightReadsMsbFirst ==
    (IsDataRead("read_quaternion") /\ call.returned) =>
        events = <<ReadOf("QUA_DATA_W_MSB"), ReadOf("QUA_DATA_W_LSB"),
                   ReadOf("QUA_DATA_X_MSB"), ReadOf("QUA_DATA_X_LSB"),
                   ReadOf("QUA_DATA_Y_MSB"), ReadOf("QUA_DATA_Y_LSB"),
                   ReadOf("QUA_DATA_Z_MSB"), ReadOf("QUA_DATA_Z_LSB")>>

\* C22: the values a caller sees through a result of read_quaternion,
\* read_acceleration, read_gyro or read_all_data that it holds are the values
\* it saw when the result was returned, whatever calls were made since on
\* the same or on another handle
C22_HeldResultUnchanged ==
    held.result # "" => attributes(Data_Return, held.result) = held.seen

IsSetUnits == call.chip = "BNO055" /\ call.op = "set_units"

\* the byte a write transfer of the BNO055 carries after the register
I2CWrittenByte(c) == c.transfers[1].messages[1].data[2]

\* C28: for every combination of the four unit selectors in {0, 1},
\* set_units writes UNIT_SEL exactly once, with the bitwise OR of the four
\* unit codes: acceleration 0x00 / 0x01, angular rate 0x00 / 0x02, Euler
\* angle 0x00 / 0x04, temperature 0x00 / 0x10
C28_WritesOrOfCodes ==
    (IsSetUnits /\ \A i \in 1..4 : call.args[i] \in {0, 1}) =>
        /\ Len(call.transfers) = 1
        /\ call.transfers[1].messages[1].data[1] = BNO055_Register.UNIT_SEL
        /\ I2CWrittenByte(call) =
               call.args[1] * 1 + call.args[2] * 2 + call.args[3] * 4
               + call.args[4] * 16

\* the value the getter of a DEVICE_CONFIG_1 property returns on object t
Getter(property, t) ==
    CASE property = "crc_enable" -> crc_enable(t)
      [] property = "magnet_temperature_coeff" -> magnet_temperature_coeff(t)
      [] property = "conversion_avg" -> conversion_avg(t)
      [] property = "i2c_read_mode" -> i2c_read_mode(t)

ConfigProperties ==
    {"crc_enable", "magnet_temperature_coeff", "conversion_avg",
     "i2c_read_mode"}

\* C29: an assignment to crc_enable, magnet_temperature_coeff,
\* conversion_avg or i2c_read_mode that returns makes the getter of the
\* property return the assigned value and leaves what the other three
\* getters return (so each getter returns the most recently assigned value,
\* the default if there was none), and the byte it writes encodes what the
\* four getters return after it: crc_enable << 7 | magnet_temperature_coeff
\* << 5 | conversion_avg << 2 | i2c_read_mode
C29_GettersFollowAssignments ==
    [][(call_count' = call_count + 1 /\ call'.chip = "TMAG5273"
        /\ call'.returned) =>
           /\ Getter(call'.op, tmag') = call'.args[1]
           /\ \A p \in ConfigProperties \ {call'.op} :
                  Getter(p, tmag') = Getter(p, tmag)
           /\ I2CWrittenByte(call') =
                  crc_enable(tmag') * 128 + magnet_temperature_coeff(tmag') * 32
                  + conversion_avg(tmag') * 4 + i2c_read_mode(tmag')]_vars


\* the control byte of the frame or operation that was built
FrameControlByte == frame.transmitted_data_bytes[1]

\* C23: the control byte of every Read and Write of an MCP23S17, whatever
\* hardware address the device was constructed with, is in 0..255, has
\* 0100 in its upper four bits, the hardware address in bits 3..1 and 1 for
\* a read, 0 for a write in bit 0; the control byte of an INA229 frame is
\* (register address << 2) | read-or-write bit and differs from that of
\* every other pair of register and direction
C23_ControlByte ==
    /\ frame.chip = "MCP23S17" =>
           /\ FrameControlByte \in 0..255
           /\ FrameControlByte \div 16 = 4
           /\ (FrameControlByte \div 2) % 8 = frame.fields[1]
           /\ FrameControlByte % 2 = (IF frame.kind = "Read" THEN 1 ELSE 0)
    /\ (frame.chip = "INA229" /\ frame.raised = "") =>
           /\ FrameControlByte =
                  Register[frame.fields[1]].address * 4
                  + (IF frame.kind = "R" THEN 1 ELSE 0)
           /\ \A register \in Registers, type \in {"R", "W"} :
                  <<register, type>> # <<frame.fields[1], frame.kind>> =>
                      SPIFrame_control_byte(
                          [READ_OR_WRITE_TYPE |-> type, register |-> register,
                           data |-> 0]) # FrameControlByte


\* the bytes of the slices of operations i.. of the batch after the two
\* leading bytes of each, in operation order
RECURSIVE DataAfterEcho(_)
DataAfterEcho(i) ==
    IF i > Len(call.args) THEN <<>>
    ELSE SubSeq(BatchSlice(i), 3, BatchCount(i)) \o DataAfterEcho(i + 1)

RECURSIVE DataByteCounts(_)
DataByteCounts(i) ==
    IF i > Len(call.args) THEN 0
    ELSE Operation_data_byte_count(call.args[i]) + DataByteCounts(i + 1)

IsOperateAnswered ==
    /\ call.chip = "MCP23S17"
    /\ call.op = "operate"
    /\ call.rx # IOError
    /\ Len(call.rx) = Len(call.transfers[1])

\* C24: MCP23S17.operate, answered by a response as long as what it sent,
\* returns in operation order exactly the bytes of each operation's slice
\* after its two leading echo bytes: data_byte_count bytes per operation, the
\* sum of the data_byte_counts in all, and no echo byte
C24_OperateReturnsDataBytes ==
    IsOperateAnswered =>
        /\ call.returned
        /\ call.value = DataAfterEcho(1)
        /\ Len(call.value) = DataByteCounts(1)


\* C25: the six bytes read_cell_voltage_register_group_a and _b decode into
\* cell voltages are the bytes of the response at the positions of the six
\* filler bytes that were sent, directly after the two command bytes and the
\* two command-PEC bytes, not the bytes at the positions of the trailing
\* data PEC
C25_DecodesFillerPositions ==
    (IsGroupRead /\ call.rx # IOError /\ Len(call.rx) = 12) =>
        LET decoded ==
                CellVoltageRegisterGroup(call.transfers, ReceivedData, 1,
                                         <<>>)
        IN  /\ call.returned = decoded.returned
            /\ call.raised = decoded.raised
            /\ call.value = decoded.value


\* the input of the PEC computation without its last two bytes, and these
PecPayload == SubSeq(call.args, 1, Len(call.args) - 2)

PecTrailer == SubSeq(call.args, Len(call.args) - 1, Len(call.args))

\* C30: the PEC of a byte sequence followed by the two bytes of its own PEC
\* is (0, 0)
C30_PecOfAppendedPecIsZero ==
    (IsPec /\ Len(call.args) >= 2
        /\ PecTrailer = get_packet_error_code_bytes(PecPayload))
    => (call.returned /\ call.value = <<0, 0>>)

\* the PEC of six register bytes followed by their PEC, which is not zero,
\* was computed
C30_Witness ==
    /\ IsPec
    /\ Len(call.args) = 8
    /\ PecPayload = <<1, 2, 3, 4, 5, 6>>
    /\ PecTrailer = get_packet_error_code_bytes(PecPayload)
    /\ PecTrailer # <<0, 0>>
    /\ call.value = <<0, 0>>


IsConversion ==
    /\ call.chip = "LTC6810"
    /\ call.op = ConversionOp

\* the conversion time of the mode and the channel of the last call
ConversionTime ==
    IF call.args[2] # 0
    THEN ADCMode[call.args[1]].cell_total_conversion_time
    ELSE ADCMode[call.args[1]].all_cells_total_conversion_time

\* C26: start_cell_voltage_adc_conversion_and_poll_status with an address,
\* the transport answering, issues exactly one transfer and then, when sleep
\* is true, exactly one blocking wait, begun after the transfer has returned,
\* of cell_total_conversion_time for a non-zero channel and of
\* all_cells_total_conversion_time for channel 0; when sleep is false it
\* does not wait; without an address it raises NotImplementedError before
\* any transfer or wait
C26_TransferThenWait ==
    IsConversion =>
        IF call.args[3] = None
        THEN /\ call.raised = "NotImplementedError"
             /\ call.transfers = <<>>
             /\ events = <<>>
        ELSE call.rx # IOError =>
                 /\ Len(call.transfers) = 1
                 /\ Len(events) = (IF call.args[4] THEN 2 ELSE 1)
                 /\ events[1].kind = "transfer"
                 /\ events[1].data = call.transfers[1]
                 /\ call.args[4] =>
                        /\ events[2].kind = "sleep"
                        /\ events[2].timeout = ConversionTime

\* a conversion of one cell in the 26 Hz mode was started with sleep: the
\* call waited 34 ms after its transfer
C26_Witness ==
    /\ IsConversion
    /\ call.args = <<"M26", 6, <<10>>, TRUE>>
    /\ call.returned
    /\ Len(events) = 2
    /\ events[1].kind = "transfer"
    /\ events[2] = sleep_for(34000)


IsReset == call.chip = "INA229" /\ call.op = "reset"

\* the read of CONFIG was answered by a zero echo byte and two bytes
ConfigWasRead ==
    /\ call.rx[1] # IOError
    /\ Len(call.rx[1]) = 3
    /\ call.rx[1][1] = 0

\* the 16-bit value the read of CONFIG was answered with
ConfigRead == call.rx[1][2] * 256 + call.rx[1][3]

\* a 16-bit value with bit 15 set and every other bit as it is
WithBit15(v) == IF v >= 32768 THEN v ELSE v + 32768

\* C27: INA229.reset makes exactly two transfers, in this order: the read
\* of CONFIG and the write to CONFIG of the 16-bit value that was read with
\* bit 15 (RST) set and every other bit unchanged; when the read fails there
\* is no write
C27_ReadThenWriteWithRst ==
    IsReset =>
        /\ Len(call.transfers) >= 1
        /\ call.transfers[1] = <<Register.CONFIG.address * 4 + 1, 0, 0>>
        /\ IF ConfigWasRead
           THEN /\ Len(call.transfers) = 2
                /\ call.transfers[2] =
                       <<Register.CONFIG.address * 4,
                         WithBit15(ConfigRead) \div 256,
                         WithBit15(ConfigRead) % 256>>
           ELSE /\ Len(call.transfers) = 1
                /\ ~call.returned

\* a reset read 0x4010 from CONFIG and wrote 0xC010
C27_Witness ==
    /\ IsReset
    /\ ConfigWasRead
    /\ ConfigRead = 16400
    /\ call.returned
    /\ call.transfers = <<<<1, 0, 0>>, <<0, 192, 16>>>>

====
